---------------------------- MODULE Spec2Model ----------------------------
(***************************************************************************)
(* IUPHAR classification core of ChEMBL_DataAcquisition                    *)
(* (src/mylib/transforms.py): the family-chain walk, the target lookups,   *)
(* the EC and name heuristics and the precedence resolver.                 *)
(*                                                                         *)
(* A Python str is a sequence of one-character strings, so that "in",      *)
(* split, join and lower() are computed, not assumed.  A call's outcome is *)
(* a record: Ret(v) for a returned value, Raises for an exception leaving  *)
(* the call, Diverges for a call that never returns.                       *)
(***************************************************************************)
EXTENDS Integers, Sequences, FiniteSets, TLC

VARIABLES
    target_df,   \* IUPHARData.target_df: the rows of the target table
    family_df,   \* IUPHARData.family_df: the rows of the family table
    pc,          \* position in family_chain: "idle", "while", "return"
    chain,       \* family_chain's local list `chain`
    current,     \* family_chain's local `current`
    op,          \* name of the operation called ("" before the call); the
                 \* lookups and the classifier keep no state between calls,
                 \* so a behaviour makes one call on one catalog
    args,        \* its arguments
    result       \* its outcome

vars == <<target_df, family_df, pc, chain, current, op, args, result>>

---------------------------------------------------------------------------
(* Bounds of the model.                                                    *)

\* most rows in a generated family table
MaxFamilyRows == 2
\* most iterations of the family_chain loop the model follows
MaxChain == 6

---------------------------------------------------------------------------
(* Python str and list helpers.                                            *)

Empty == <<>>

\* x in seq (list membership)
InSeq(x, seq) == \E i \in 1..Len(seq) : seq[i] = x

\* the elements of a list, as a set
Elems(seq) == {seq[i] : i \in 1..Len(seq)}

\* sub in text (str containment): sub occurs at some offset of text
StrContains(text, sub) ==
    \E off \in 0..(Len(text) - Len(sub)) :
        \A i \in 1..Len(sub) : text[off + i] = sub[i]

\* all sequences over S of length at most n
RECURSIVE SeqsUpTo(_, _)
SeqsUpTo(S, n) ==
    IF n = 0 THEN {<<>>}
    ELSE LET shorter == SeqsUpTo(S, n - 1)
         IN  shorter \cup {Append(s, x) : s \in shorter, x \in S}

\* outcomes of a call
Ret(v)   == [kind |-> "return", val |-> v]
Raises   == [kind |-> "raise"]
Diverges == [kind |-> "diverge"]
NoCall   == [kind |-> "none"]

---------------------------------------------------------------------------
(* Identifiers and literals of the tables.                                 *)

F1 == <<"F","1">>
F2 == <<"F","2">>
F3 == <<"F","3">>
sNA == <<"N","/","A">>
sOther == <<"O","t","h","e","r"," ","P","r","o","t","e","i","n"," ","T","a","r","g","e","t">>

\* a row of the family table as load_families returns it (every cell a str)
FamilyRow(fid, parent, ftype, fname) ==
    [family_id |-> fid, parent_family_id |-> parent, type |-> ftype,
     family_name |-> fname]

---------------------------------------------------------------------------
(* IUPHARData.family_chain                                                 *)

\* self.family_df.loc[self.family_df["family_id"] == current, col]
FamilyRowsOf(fam, fid) ==
    SelectSeq(fam, LAMBDA r : r.family_id = fid)

\* the loop body putting each id in front of the list (root first)
FamilyChainBodyRootFirst(fam, st) ==
    IF st.current = Empty
    THEN [st EXCEPT !.pc = "return"]
    ELSE LET appended == <<st.current>> \o st.chain
             parent_series == FamilyRowsOf(fam, st.current)
         IN  IF parent_series = <<>>
             THEN [st EXCEPT !.chain = appended, !.pc = "return"]
             ELSE LET parent == parent_series[1].parent_family_id
                  IN  IF parent = Empty
                      THEN [st EXCEPT !.chain = appended, !.pc = "return"]
                      ELSE [st EXCEPT !.chain = appended, !.current = parent]

\* one evaluation of the loop test and, when it passes, of the loop body
\* of family_chain on the locals st = [pc, chain, current]
family_chain_body(fam, st) ==
    IF st.current = Empty
    THEN [st EXCEPT !.pc = "return"]
    ELSE LET appended == Append(st.chain, st.current)
             parent_series == FamilyRowsOf(fam, st.current)
         IN  IF parent_series = <<>>
             THEN [st EXCEPT !.chain = appended, !.pc = "return"]
             ELSE LET parent == parent_series[1].parent_family_id
                  IN  IF parent = Empty
                      THEN [st EXCEPT !.chain = appended, !.pc = "return"]
                      ELSE [st EXCEPT !.chain = appended, !.current = parent]

\* the locals of family_chain after n more evaluations of its loop
RECURSIVE family_chain_run(_, _, _)
family_chain_run(fam, st, n) ==
    IF n = 0 \/ st.pc = "return" THEN st
    ELSE family_chain_run(fam, family_chain_body(fam, st), n - 1)

\* family_chain(start_id) as a call: a walk that takes more iterations than
\* the table has rows plus two has come back to an id it left, and, the
\* table being immutable, repeats from there for ever
family_chain(fam, start_id) ==
    LET st == family_chain_run(
                  fam, [pc |-> "while", chain |-> <<>>, current |-> start_id],
                  Len(fam) + 2)
    IN  IF st.pc = "return" THEN Ret(st.chain) ELSE Diverges

---------------------------------------------------------------------------
(* Specification Spec: the family_chain loop, one iteration per step, over *)
(* every family table of at most MaxFamilyRows rows.                       *)

ChainFamilyIds == {F1, F2}
ChainParentIds == {Empty, F1, F2, F3}
ChainStartIds  == {Empty, F1, F2, F3}

ChainFamilyRows ==
    {FamilyRow(f, p, Empty, f) : f \in ChainFamilyIds, p \in ChainParentIds}

ChainFamilyTables == SeqsUpTo(ChainFamilyRows, MaxFamilyRows)

Init ==
    /\ family_df \in ChainFamilyTables
    /\ target_df = <<>>
    /\ pc = "idle"
    /\ chain = <<>>
    /\ current = Empty
    /\ op = ""
    /\ args = <<>>
    /\ result = NoCall

\* family_chain is entered: chain = [], current = start_id
family_chain_call ==
    \E start_id \in ChainStartIds :
        /\ pc = "idle"
        /\ pc' = "while"
        /\ chain' = <<>>
        /\ current' = start_id
        /\ op' = "family_chain"
        /\ args' = <<start_id>>
        /\ result' = NoCall
        /\ UNCHANGED <<target_df, family_df>>

\* one evaluation of `while current:` and of the loop body
family_chain_iterate ==
    /\ pc = "while"
    /\ Len(chain) < MaxChain
    /\ LET st == family_chain_body(
                     family_df, [pc |-> pc, chain |-> chain, current |-> current])
       IN  /\ pc' = st.pc
           /\ chain' = st.chain
           /\ current' = st.current
    /\ UNCHANGED <<target_df, family_df, op, args, result>>

\* `return chain`
family_chain_return ==
    /\ pc = "return"
    /\ pc' = "idle"
    /\ result' = Ret(chain)
    /\ UNCHANGED <<target_df, family_df, chain, current, op, args>>

Next ==
    \/ family_chain_call
    \/ family_chain_iterate
    \/ family_chain_return

Spec == Init /\ [][Next]_vars

---------------------------------------------------------------------------
(* Claims about family_chain.                                              *)

\* the distinct family ids that have a row in the family table
FamilyIdsOf(fam) == {fam[i].family_id : i \in 1..Len(fam)}

\* C1: family_chain terminates for every start id and every family table,
\* cyclic or self-referential ones included.  A walk that ends visits no id
\* twice and only its last id may lack a row, so it ends within (number of
\* distinct family ids + 1) iterations: the list never grows beyond that.
C1_ChainTerminates ==
    Len(chain) <= Cardinality(FamilyIdsOf(family_df)) + 1

\* C2: at every step of the walk and in the returned list no family_id
\* appears twice.
C2_ChainNoRepeat ==
    \A i, j \in 1..Len(chain) : i # j => chain[i] # chain[j]

---------------------------------------------------------------------------
(* More str helpers: lower(), "|".join, split, unique.                     *)

UpperCase == <<"A","B","C","D","E","F","G","H","I","J","K","L","M",
               "N","O","P","Q","R","S","T","U","V","W","X","Y","Z">>
LowerCase == <<"a","b","c","d","e","f","g","h","i","j","k","l","m",
               "n","o","p","q","r","s","t","u","v","w","x","y","z">>

\* c.lower() for one character
LowerChar(c) ==
    IF \E i \in 1..Len(UpperCase) : UpperCase[i] = c
    THEN LowerCase[CHOOSE i \in 1..Len(UpperCase) : UpperCase[i] = c]
    ELSE c

\* s.lower()
Lower(s) == [i \in 1..Len(s) |-> LowerChar(s[i])]

\* sep.join(parts) for a one-character separator
RECURSIVE Join(_, _)
Join(sep, parts) ==
    IF parts = <<>> THEN Empty
    ELSE IF Len(parts) = 1 THEN parts[1]
    ELSE parts[1] \o <<sep>> \o Join(sep, Tail(parts))

\* s.split(sep) for a one-character separator: always at least one part
RECURSIVE SplitFrom(_, _, _, _)
SplitFrom(s, sep, i, part) ==
    IF i > Len(s) THEN <<part>>
    ELSE IF s[i] = sep THEN <<part>> \o SplitFrom(s, sep, i + 1, Empty)
    ELSE SplitFrom(s, sep, i + 1, Append(part, s[i]))

Split(s, sep) == SplitFrom(s, sep, 1, Empty)

\* pandas Series.unique(): the values in first-seen order, each once
RECURSIVE Unique(_)
Unique(seq) ==
    IF seq = <<>> THEN <<>>
    ELSE LET init == Unique(SubSeq(seq, 1, Len(seq) - 1))
             last == seq[Len(seq)]
         IN  IF InSeq(last, init) THEN init ELSE Append(init, last)

---------------------------------------------------------------------------
(* The target table and IUPHARData's lookups.                              *)

T1 == <<"T","1">>
T2 == <<"T","2">>
Q1 == <<"Q","1">>
Q2 == <<"Q","2">>

\* a row of the target table as load_targets returns it: every cell a str,
\* the legacy HGNC columns renamed to lower case, "type" optional ("" here
\* when the file has no such column or cell)
TargetRow(tid, swissprot, synonyms, fid, ttype, tname) ==
    [target_id |-> tid, swissprot |-> swissprot, hgnc_name |-> Empty,
     hgnc_id |-> Empty, gene_name |-> Empty, synonyms |-> synonyms,
     family_id |-> fid, target_name |-> tname, type |-> ttype]

\* re.compile(pat) succeeds.  The model's query alphabet holds letters,
\* digits, " ", "/", "-", "." and "[": of these only "[" and "." are special
\* to Python's re, and with no "]" to close it a "[" is always an
\* unterminated character set (re.error)
re_compile_ok(pat) == ~ InSeq("[", pat)

\* re.compile(pat, re.IGNORECASE).search(text) is not None, for a pattern
\* that compiles: "." matches any character, every other character itself
re_search_ignorecase(pat, text) ==
    \E off \in 0..(Len(text) - Len(pat)) :
        \A i \in 1..Len(pat) :
            \/ pat[i] = "."
            \/ LowerChar(pat[i]) = LowerChar(text[off + i])

\* self.target_df.loc[mask, "target_id"].dropna().astype(str).unique(),
\* given the rows of target_df that the mask selects
_select_target_ids(rows) ==
    Unique([i \in 1..Len(rows) |-> rows[i].target_id])

target_id_by_uniprot(tdf, uniprot_id) ==
    LET ids == _select_target_ids(
                   SelectSeq(tdf, LAMBDA r : r.swissprot = uniprot_id))
    IN  IF ids # <<>> THEN ids[1] ELSE Empty

\* target_id_by_name: Series.str.contains(target_name, case=False, na=False)
\* is called with its default regex=True, so target_name is compiled as a
\* pattern before any row is looked at
target_id_by_name(tdf, target_name) ==
    IF target_name = Empty THEN Ret(Empty)
    ELSE IF ~ re_compile_ok(target_name) THEN Raises
    ELSE LET ids == _select_target_ids(SelectSeq(
                        tdf, LAMBDA r : re_search_ignorecase(target_name, r.synonyms)))
         IN  Ret(Join("|", ids))

---------------------------------------------------------------------------
(* Specification SpecLookup: the lookups of IUPHARData over every target   *)
(* table of at most MaxTargetRows rows and every query of at most          *)
(* MaxQueryLen characters.                                                 *)

\* most rows in a generated target table
MaxTargetRows == 2
\* most characters in a generated query
MaxQueryLen == 2

LookupChars == {"a", "B", ".", "["}
LookupSynonyms == {Empty, <<"A","b">>, <<"a",".">>, <<"b","[","a">>}
LookupQueries == SeqsUpTo(LookupChars, MaxQueryLen)

LookupTargetRows ==
    {TargetRow(t, Q1, syn, F1, Empty, t) : t \in {T1, T2}, syn \in LookupSynonyms}

LookupTargetTables == SeqsUpTo(LookupTargetRows, MaxTargetRows)

InitLookup ==
    /\ target_df \in LookupTargetTables
    /\ family_df = <<>>
    /\ pc = "idle"
    /\ chain = <<>>
    /\ current = Empty
    /\ op = ""
    /\ args = <<>>
    /\ result = NoCall

target_id_by_name_call ==
    \E q \in LookupQueries :
        /\ op = ""
        /\ op' = "target_id_by_name"
        /\ args' = <<q>>
        /\ result' = target_id_by_name(target_df, q)
        /\ UNCHANGED <<target_df, family_df, pc, chain, current>>

NextLookup ==
    \/ target_id_by_name_call

SpecLookup == InitLookup /\ [][NextLookup]_vars

\* the unique target ids of the rows whose synonyms contain q as a literal,
\* case-insensitive substring, pipe-joined
LiteralMatchIds(tdf, q) ==
    LET rows == SelectSeq(tdf, LAMBDA r : StrContains(Lower(r.synonyms), Lower(q)))
    IN  Join("|", Unique([i \in 1..Len(rows) |-> rows[i].target_id]))

\* C3: target_id_by_name matches its argument as a literal case-insensitive
\* substring of synonyms: it never raises, whatever metacharacters the
\* query holds, and returns exactly the ids of the rows whose synonyms
\* contain those characters ("" when there is none).
C3_LiteralSubstring ==
    op = "target_id_by_name" =>
        result = Ret(LiteralMatchIds(target_df, args[1]))

---------------------------------------------------------------------------
(* String literals of the classifier.                                      *)

sOtherOther == <<"O","t","h","e","r"," ","P","r","o","t","e","i","n"," ","T","a","r","g","e","t",".","O","t","h","e","r"," ","P","r","o","t","e","i","n"," ","T","a","r","g","e","t">>
s0864_1 == <<"0","8","6","4","-","1">>
s0864 == <<"0","8","6","4">>
s864_1 == <<"8","6","4","-","1">>
s864 == <<"8","6","4">>
s0690 == <<"0","6","9","0">>
s0690_1 == <<"0","6","9","0","-","1">>
s0690_2 == <<"0","6","9","0","-","2">>
s0690_3 == <<"0","6","9","0","-","3">>
s0690_4 == <<"0","6","9","0","-","4">>
s0690_5 == <<"0","6","9","0","-","5">>
s0690_6 == <<"0","6","9","0","-","6">>
EnzymeOxidoreductase == <<"E","n","z","y","m","e",".","O","x","i","d","o","r","e","d","u","c","t","a","s","e">>
EnzymeTransferase == <<"E","n","z","y","m","e",".","T","r","a","n","s","f","e","r","a","s","e">>
EnzymeMultifunctional == <<"E","n","z","y","m","e",".","M","u","l","t","i","f","u","n","c","t","i","o","n","a","l">>
EnzymeHydrolase == <<"E","n","z","y","m","e",".","H","y","d","r","o","l","a","s","e">>
EnzymeIsomerase == <<"E","n","z","y","m","e",".","I","s","o","m","e","r","a","s","e">>
EnzymeLyase == <<"E","n","z","y","m","e",".","L","y","a","s","e">>
EnzymeLigase == <<"E","n","z","y","m","e",".","L","i","g","a","s","e">>
EnzymeTranslocase == <<"E","n","z","y","m","e",".","T","r","a","n","s","l","o","c","a","s","e">>
TransporterNA == <<"T","r","a","n","s","p","o","r","t","e","r",".","N","/","A">>
TransporterSLC == <<"T","r","a","n","s","p","o","r","t","e","r",".","S","L","C"," ","s","u","p","e","r","f","a","m","i","l","y"," ","o","f"," ","s","o","l","u","t","e"," ","c","a","r","r","i","e","r">>
IonChannelNA == <<"I","o","n"," ","c","h","a","n","n","e","l",".","N","/","A">>
ReceptorNuclear == <<"R","e","c","e","p","t","o","r",".","N","u","c","l","e","a","r"," ","h","o","r","m","o","n","e"," ","r","e","c","e","p","t","o","r">>
sNANA == <<"N","/","A",".","N","/","A">>
kw_kinase == <<"k","i","n","a","s","e">>
kw_oxidase == <<"o","x","i","d","a","s","e">>
kw_reductase == <<"r","e","d","u","c","t","a","s","e">>
kw_hydrolase == <<"h","y","d","r","o","l","a","s","e">>
kw_protease == <<"p","r","o","t","e","a","s","e">>
kw_phosphatases == <<"p","h","o","s","p","h","a","t","a","s","e","s">>
kw_atpase == <<"a","t","p","a","s","e">>
kw_solute_carrier == <<"s","o","l","u","t","e"," ","c","a","r","r","i","e","r">>
kw_transport == <<"t","r","a","n","s","p","o","r","t">>
kw_channel == <<"c","h","a","n","n","e","l">>
kw_hormone == <<"h","o","r","m","o","n","e">>

---------------------------------------------------------------------------
(* ClassificationRecord and the validation helpers of IUPHARClassifier.    *)

\* ClassificationRecord(): every field at its default
DefaultRecord ==
    [IUPHAR_target_id |-> sNA, IUPHAR_family_id |-> sNA,
     IUPHAR_class |-> sOther, IUPHAR_subclass |-> sOther,
     IUPHAR_tree |-> <<s0864_1, s0864>>, IUPHAR_type |-> sOtherOther,
     IUPHAR_name |-> sNA, IUPHAR_ecNumber |-> <<>>, STATUS |-> "N/A"]

\* bool(parameter) and parameter not in {"N/A", "Other Protein Target"};
\* None, like "", is falsy and is written Empty
_is_valid_parameter(parameter) ==
    parameter # Empty /\ parameter \notin {sNA, sOther}

_is_valid_list(values) ==
    LET lst == SelectSeq(values, LAMBDA v : v # Empty /\ v # sNA)
    IN  IF lst = <<>> THEN FALSE
        ELSE IF lst[1] = s0864_1 /\ Len(lst) = 2 THEN FALSE
        ELSE TRUE

\* parts = type_val.split("."); parts[0] if parts else "Other Protein Target"
cls_part(type_val) ==
    LET parts == Split(type_val, ".")
    IN  IF parts # <<>> THEN parts[1] ELSE sOther

\* parts[1] if len(parts) > 1 else "Other Protein Target"
sub_part(type_val) ==
    LET parts == Split(type_val, ".")
    IN  IF Len(parts) > 1 THEN parts[2] ELSE sOther

---------------------------------------------------------------------------
(* IUPHARClassifier._name_to_type                                          *)

\* the keyword ladder on the lower-cased name
name_ladder(name) ==
    IF StrContains(name, kw_kinase) THEN EnzymeTransferase
    ELSE IF StrContains(name, kw_oxidase) \/ StrContains(name, kw_reductase)
        THEN EnzymeOxidoreductase
    ELSE IF \/ StrContains(name, kw_hydrolase)
            \/ StrContains(name, kw_protease)
            \/ StrContains(name, kw_phosphatases)
        THEN EnzymeHydrolase
    ELSE IF StrContains(name, kw_atpase) THEN TransporterNA
    ELSE IF StrContains(name, kw_solute_carrier) THEN TransporterSLC
    ELSE IF StrContains(name, kw_transport) THEN TransporterNA
    ELSE IF StrContains(name, kw_channel) THEN IonChannelNA
    ELSE IF StrContains(name, kw_hormone) THEN ReceptorNuclear
    ELSE sOtherOther

\* _name_to_type without `name = target_name.lower()`
NameToTypeCaseSensitive(target_name) ==
    IF ~ _is_valid_parameter(target_name) THEN sOtherOther
    ELSE name_ladder(target_name)

_name_to_type(target_name) ==
    IF ~ _is_valid_parameter(target_name) THEN sOtherOther
    ELSE name_ladder(Lower(target_name))

---------------------------------------------------------------------------
(* IUPHARClassifier._ec_number_to_type, _CHAIN_MAP, _ec_number_to_chain,   *)
(* by_ec_number                                                            *)

\* mapping.get(code, "")
ec_class_mapping(code) ==
    CASE code = <<"1">> -> EnzymeOxidoreductase
      [] code = <<"2">> -> EnzymeTransferase
      [] code = <<"3">> -> EnzymeHydrolase
      [] code = <<"4">> -> EnzymeLyase
      [] code = <<"5">> -> EnzymeIsomerase
      [] code = <<"6">> -> EnzymeLigase
      [] code = <<"7">> -> EnzymeTranslocase
      [] OTHER -> Empty

\* _ec_number_to_type taking the numeral of the first item only
EcNumberToTypeFirstOnly(ec_numbers) ==
    IF ~ _is_valid_list(ec_numbers) THEN Empty
    ELSE LET heads == SelectSeq(ec_numbers,
                          LAMBDA n : InSeq(".", n) /\ Split(n, ".")[1] # Empty)
         IN  IF heads = <<>> THEN Empty
             ELSE ec_class_mapping(Split(heads[1], ".")[1])

_ec_number_to_type(ec_numbers) ==
    IF ~ _is_valid_list(ec_numbers) THEN Empty
    ELSE LET prefixes ==
                 {Split(n, ".")[1] :
                     n \in {m \in Elems(ec_numbers) :
                               InSeq(".", m) /\ Split(m, ".")[1] # Empty}}
         IN  IF prefixes = {} THEN Empty
             ELSE IF Cardinality(prefixes) > 1 THEN EnzymeMultifunctional
             ELSE ec_class_mapping(CHOOSE code \in prefixes : TRUE)

\* _CHAIN_MAP.get(target_type, ["0864-1", "0864"]); the keys that no EC
\* number or name heuristic can produce are part of the table all the same
_CHAIN_MAP_get(target_type) ==
    CASE target_type = EnzymeOxidoreductase  -> <<s0690_1, s0690>>
      [] target_type = EnzymeTransferase     -> <<s0690_2, s0690>>
      [] target_type = EnzymeMultifunctional -> <<s0690_3, s0690>>
      [] target_type = EnzymeHydrolase       -> <<s0690_4, s0690>>
      [] target_type = EnzymeIsomerase       -> <<s0690_5, s0690>>
      [] target_type = EnzymeLyase           -> <<s0690_6, s0690>>
      [] target_type = EnzymeLigase          -> <<s0690_6, s0690>>
      [] target_type = ReceptorNuclear       -> <<<<"0","0","9","5">>, <<"0","6","8","8">>>>
      [] target_type = TransporterSLC        -> <<<<"0","8","6","3">>, <<"0","6","9","1">>>>
      [] OTHER -> <<s0864_1, s0864>>

\* _ec_number_to_chain looking the chain up by the raw EC list's first item
\* instead of by the derived type
EcNumberToChainByItem(ec_numbers) ==
    _CHAIN_MAP_get(IF ec_numbers = <<>> THEN Empty ELSE ec_numbers[1])

_ec_number_to_chain(ec_numbers) ==
    _CHAIN_MAP_get(_ec_number_to_type(ec_numbers))

\* iuphar_ec_number.split("|") if "." in it or "|" in it else []
ec_numbers_of(iuphar_ec_number) ==
    IF InSeq(".", iuphar_ec_number) \/ InSeq("|", iuphar_ec_number)
    THEN Split(iuphar_ec_number, "|")
    ELSE <<>>

by_ec_number(iuphar_ec_number, optional_name) ==
    LET numbers == ec_numbers_of(iuphar_ec_number)
    IN  IF ~ _is_valid_list(numbers) THEN DefaultRecord
        ELSE LET ec_type == _ec_number_to_type(numbers)
                 type_val == IF ec_type # Empty THEN ec_type ELSE sOtherOther
             IN  [IUPHAR_target_id |-> sNA,
                  IUPHAR_family_id |-> sNA,
                  IUPHAR_type |-> type_val,
                  IUPHAR_class |-> cls_part(type_val),
                  IUPHAR_subclass |-> sub_part(type_val),
                  IUPHAR_tree |-> _ec_number_to_chain(numbers),
                  IUPHAR_name |-> IF _is_valid_parameter(optional_name)
                                  THEN optional_name ELSE sNA,
                  IUPHAR_ecNumber |-> numbers,
                  STATUS |-> "ec_number"]

---------------------------------------------------------------------------
(* Specification SpecEC: _ec_number_to_type on every list of at most       *)
(* MaxEcItems items, by_ec_number on the same lists pipe-joined.           *)

\* most items in a generated EC list
MaxEcItems == 2

EcItems ==
    {<<"1",".","2",".","3",".","4">>,
     <<"2",".","7">>,
     <<"3",".","1">>,
     <<"4",".","2">>,
     <<"5",".","3">>,
     <<"6",".","1">>,
     <<"7",".","1">>,
     <<"8",".","1">>,
     <<"N","/","A">>,
     <<>>,
     <<"0","8","6","4","-","1">>,
     <<"0","8","6","4">>,
     <<"1","2">>,
     <<".","5">>}

EcLists == SeqsUpTo(EcItems, MaxEcItems)

EcNames == {Empty, sNA, <<"a","b","c">>}

InitEC ==
    /\ target_df = <<>>
    /\ family_df = <<>>
    /\ pc = "idle"
    /\ chain = <<>>
    /\ current = Empty
    /\ op = ""
    /\ args = <<>>
    /\ result = NoCall

_ec_number_to_type_call ==
    \E ec_numbers \in EcLists :
        /\ op = ""
        /\ op' = "_ec_number_to_type"
        /\ args' = <<ec_numbers>>
        /\ result' = Ret(_ec_number_to_type(ec_numbers))
        /\ UNCHANGED <<target_df, family_df, pc, chain, current>>

by_ec_number_call ==
    \E ec_numbers \in EcLists, optional_name \in EcNames :
        /\ op = ""
        /\ op' = "by_ec_number"
        /\ args' = <<Join("|", ec_numbers), optional_name>>
        /\ result' = Ret(by_ec_number(Join("|", ec_numbers), optional_name))
        /\ UNCHANGED <<target_df, family_df, pc, chain, current>>

NextEC ==
    \/ _ec_number_to_type_call
    \/ by_ec_number_call

SpecEC == InitEC /\ [][NextEC]_vars

\* the text of an EC number before its first dot
RECURSIVE HeadBeforeDot(_)
HeadBeforeDot(n) ==
    IF n = <<>> \/ Head(n) = "." THEN Empty
    ELSE <<Head(n)>> \o HeadBeforeDot(Tail(n))

\* the set of leading numerals of a list: of each item that has a dot, the
\* non-empty text before the first dot
LeadingNumerals(ec_numbers) ==
    {HeadBeforeDot(ec_numbers[i]) :
        i \in {j \in 1..Len(ec_numbers) :
                  InSeq(".", ec_numbers[j]) /\ HeadBeforeDot(ec_numbers[j]) # Empty}}

\* the enzyme classes of the numerals 1..7, in that order
EcClassNames ==
    <<EnzymeOxidoreductase, EnzymeTransferase, EnzymeHydrolase, EnzymeLyase,
      EnzymeIsomerase, EnzymeLigase, EnzymeTranslocase>>

EcDigits == <<"1", "2", "3", "4", "5", "6", "7">>

\* the type the claim gives to a set of leading numerals
TypeOfNumerals(numerals) ==
    IF numerals = {} THEN Empty
    ELSE IF Cardinality(numerals) > 1 THEN EnzymeMultifunctional
    ELSE LET code == CHOOSE c \in numerals : TRUE
         IN  IF \E d \in 1..7 : code = <<EcDigits[d]>>
             THEN EcClassNames[CHOOSE d \in 1..7 : code = <<EcDigits[d]>>]
             ELSE Empty

\* C7: on a valid EC list _ec_number_to_type is a function of the set of
\* leading numerals alone (so of neither order nor multiplicity): "" for no
\* numeral, Enzyme.Multifunctional for several, the class of 1..7 for one,
\* "" for any other single numeral.
C7_EcNumberToType ==
    (op = "_ec_number_to_type" /\ _is_valid_list(args[1])) =>
        result = Ret(TypeOfNumerals(LeadingNumerals(args[1])))

\* C7 witness: a valid list of two items with different numerals, classified
\* Enzyme.Multifunctional
C7_Witness ==
    /\ op = "_ec_number_to_type"
    /\ _is_valid_list(args[1])
    /\ Cardinality(LeadingNumerals(args[1])) = 2
    /\ result = Ret(EnzymeMultifunctional)

\* the chain anchor the claim gives to a type
AnchorOfType(type_val) ==
    IF type_val = EnzymeOxidoreductase THEN <<s0690_1, s0690>>
    ELSE IF type_val = EnzymeTransferase THEN <<s0690_2, s0690>>
    ELSE IF type_val = EnzymeMultifunctional THEN <<s0690_3, s0690>>
    ELSE IF type_val = EnzymeHydrolase THEN <<s0690_4, s0690>>
    ELSE IF type_val = EnzymeIsomerase THEN <<s0690_5, s0690>>
    ELSE IF type_val \in {EnzymeLyase, EnzymeLigase} THEN <<s0690_6, s0690>>
    ELSE <<s0864_1, s0864>>

s1234 == <<"1",".","2",".","3",".","4">>

\* C8: by_ec_number on a valid EC string has status "ec_number", the type
\* derived from the leading numerals (the default type when that is "") and
\* the anchor of that type as its tree, the sentinel for Translocase and
\* unresolved; "1.2.3.4" gives Enzyme.Oxidoreductase and [0690-1, 0690].
C8_ByEcNumber ==
    (op = "by_ec_number" /\ _is_valid_list(ec_numbers_of(args[1]))) =>
        LET derived == TypeOfNumerals(LeadingNumerals(Split(args[1], "|")))
        IN  /\ result.val.STATUS = "ec_number"
            /\ result.val.IUPHAR_type =
                   (IF derived = Empty THEN sOtherOther ELSE derived)
            /\ result.val.IUPHAR_tree = AnchorOfType(derived)
            /\ (args[1] = s1234 =>
                   /\ result.val.IUPHAR_type = EnzymeOxidoreductase
                   /\ result.val.IUPHAR_tree = <<s0690_1, s0690>>)

\* C8 witness: by_ec_number("1.2.3.4") has returned the oxidoreductase anchor
C8_Witness ==
    /\ op = "by_ec_number"
    /\ args[1] = s1234
    /\ result.val.STATUS = "ec_number"
    /\ result.val.IUPHAR_tree = <<s0690_1, s0690>>

---------------------------------------------------------------------------
(* Specification SpecName: _name_to_type on every text made of at most     *)
(* MaxWords words.                                                         *)

\* most words in a generated name
MaxWords == 2

NameWords ==
    {<<"K","i","n","a","s","e">>,
     <<"O","X","I","D","A","S","E">>,
     <<"r","e","d","u","c","t","a","s","e">>,
     <<"h","y","d","r","o","l","a","s","e">>,
     <<"P","r","o","t","e","a","s","e">>,
     <<"p","h","o","s","p","h","a","t","a","s","e","s">>,
     <<"p","h","o","s","p","h","a","t","a","s","e">>,
     <<"A","T","P","a","s","e">>,
     <<"s","o","l","u","t","e"," ","c","a","r","r","i","e","r">>,
     <<"t","r","a","n","s","p","o","r","t">>,
     <<"C","h","a","n","n","e","l">>,
     <<"h","o","r","m","o","n","e">>,
     <<"E","x","a","m","p","l","e"," ">>,
     <<"N","/","A">>,
     <<"O","t","h","e","r"," ","P","r","o","t","e","i","n"," ","T","a","r","g","e","t">>}

RECURSIVE Concat(_)
Concat(parts) ==
    IF parts = <<>> THEN Empty ELSE Head(parts) \o Concat(Tail(parts))

NameTexts == {Concat(ws) : ws \in SeqsUpTo(NameWords, MaxWords)}

InitName ==
    /\ target_df = <<>>
    /\ family_df = <<>>
    /\ pc = "idle"
    /\ chain = <<>>
    /\ current = Empty
    /\ op = ""
    /\ args = <<>>
    /\ result = NoCall

_name_to_type_call ==
    \E target_name \in NameTexts :
        /\ op = ""
        /\ op' = "_name_to_type"
        /\ args' = <<target_name>>
        /\ result' = Ret(_name_to_type(target_name))
        /\ UNCHANGED <<target_df, family_df, pc, chain, current>>

NextName ==
    \/ _name_to_type_call

SpecName == InitName /\ [][NextName]_vars

\* the claim's ladder: the keywords of each rung and the rung's type
KeywordLadder ==
    << [keys |-> {kw_kinase}, type |-> EnzymeTransferase],
       [keys |-> {kw_oxidase, kw_reductase}, type |-> EnzymeOxidoreductase],
       [keys |-> {kw_hydrolase, kw_protease, kw_phosphatases},
        type |-> EnzymeHydrolase],
       [keys |-> {kw_atpase}, type |-> TransporterNA],
       [keys |-> {kw_solute_carrier}, type |-> TransporterSLC],
       [keys |-> {kw_transport}, type |-> TransporterNA],
       [keys |-> {kw_channel}, type |-> IonChannelNA],
       [keys |-> {kw_hormone}, type |-> ReceptorNuclear] >>

\* the rungs one of whose keywords occurs, case-insensitively, in text
RungsIn(text) ==
    {i \in 1..Len(KeywordLadder) :
        \E k \in KeywordLadder[i].keys : StrContains(Lower(text), k)}

ExampleKinase == <<"E","x","a","m","p","l","e"," ","K","i","n","a","s","e">>

\* C9: _name_to_type gives the type of the earliest rung of the ladder that
\* has a keyword occurring case-insensitively in the text, and the default
\* type when no rung has one (an empty or invalid text included);
\* "Example Kinase" gives Enzyme.Transferase.
C9_NameToType ==
    op = "_name_to_type" =>
        /\ result =
              Ret(IF RungsIn(args[1]) = {} THEN sOtherOther
                  ELSE KeywordLadder[CHOOSE i \in RungsIn(args[1]) :
                           \A j \in RungsIn(args[1]) : i <= j].type)
        /\ (args[1] = ExampleKinase => result = Ret(EnzymeTransferase))

\* C9 witness: a text holding keywords of two rungs got the earlier one's
\* type, and "Example Kinase" was classified
C9_Witness ==
    /\ op = "_name_to_type"
    /\ Cardinality(RungsIn(args[1])) = 2
    /\ 5 \in RungsIn(args[1])
    /\ 6 \in RungsIn(args[1])
    /\ result = Ret(TransporterSLC)

---------------------------------------------------------------------------
(* sorted() on str: code-point order.                                      *)

\* the characters of the model in code-point order
CodePoints ==
    <<" ", "-", ".", "/", "0", "1", "2", "3", "4", "5", "6", "7", "8", "9">>
    \o UpperCase \o <<"[">> \o LowerCase \o <<"|">>

\* ord(c), up to an order-preserving renumbering
Ord(c) == CHOOSE i \in 1..Len(CodePoints) : CodePoints[i] = c

\* a < b on str
RECURSIVE StrLess(_, _)
StrLess(a, b) ==
    IF b = <<>> THEN FALSE
    ELSE IF a = <<>> THEN TRUE
    ELSE IF Head(a) = Head(b) THEN StrLess(Tail(a), Tail(b))
    ELSE Ord(Head(a)) < Ord(Head(b))

\* sorted(S) for a set of str
RECURSIVE Sorted(_)
Sorted(S) ==
    IF S = {} THEN <<>>
    ELSE LET least == CHOOSE x \in S : \A y \in S \ {x} : StrLess(x, y)
         IN  <<least>> \o Sorted(S \ {least})

---------------------------------------------------------------------------
(* IUPHARData: record lookups.  An Optional[pd.Series] is the sequence of  *)
(* the matching rows cut to its first row: <<>> is None.                   *)

from_target_record(tdf, target_id) ==
    LET rows == SelectSeq(tdf, LAMBDA r : r.target_id = target_id)
    IN  IF rows = <<>> THEN <<>> ELSE <<rows[1]>>

from_target_family_id(tdf, target_id) ==
    LET record == from_target_record(tdf, target_id)
    IN  IF record = <<>> THEN Empty ELSE record[1].family_id

from_family_record(fam, family_id) ==
    LET rows == SelectSeq(fam, LAMBDA r : r.family_id = family_id)
    IN  IF rows = <<>> THEN <<>> ELSE <<rows[1]>>

from_family_type(fam, family_id) ==
    LET record == from_family_record(fam, family_id)
    IN  IF record = <<>> THEN Empty ELSE record[1].type

\* family_id_by_name, given the value target_id_by_name returned
family_ids_of_targets(tdf, joined_target_ids) ==
    LET target_ids == Split(joined_target_ids, "|")
        family_ids == {from_target_family_id(tdf, target_ids[i]) :
                          i \in {j \in 1..Len(target_ids) : target_ids[j] # Empty}}
    IN  Join("|", Sorted(family_ids \ {Empty}))

family_id_by_name(tdf, target_name) ==
    IF target_name = Empty THEN Ret(Empty)
    ELSE LET mapped == target_id_by_name(tdf, target_name)
         IN  IF mapped.kind # "return" THEN mapped
             ELSE Ret(family_ids_of_targets(tdf, mapped.val))

---------------------------------------------------------------------------
(* IUPHARClassifier: lookups and type reconciliation.                      *)

_family_to_type(fam, family_id) ==
    IF _is_valid_parameter(family_id)
    THEN LET t == from_family_type(fam, family_id)
         IN  IF t # Empty THEN t ELSE sNA
    ELSE sNA

_family_to_chain(fam, family_id) ==
    IF _is_valid_parameter(family_id)
    THEN family_chain(fam, family_id)
    ELSE Ret(<<>>)

_target_record(tdf, target_id) ==
    IF _is_valid_parameter(target_id)
    THEN from_target_record(tdf, target_id)
    ELSE <<>>

\* the reconciliation preferring the family's type when both are valid
ReconcileTypesFamilyFirst(type1, type2) ==
    IF _is_valid_parameter(type2) THEN type2
    ELSE IF _is_valid_parameter(type1) THEN type1
    ELSE sOtherOther

\* the reconciliation with the contradiction branch ahead of the last
\* test: two valid types that differ give "N/A.N/A"
ReconcileTypesContradiction(type1, type2) ==
    LET type_val ==
            IF _is_valid_parameter(type1) /\ ~ _is_valid_parameter(type2)
                THEN type1
            ELSE IF _is_valid_parameter(type2) /\ ~ _is_valid_parameter(type1)
                THEN type2
            ELSE IF ~ (_is_valid_parameter(type1) \/ _is_valid_parameter(type2))
                THEN sOtherOther
            ELSE IF type1 = type2 THEN type1
            ELSE sNANA
    IN  IF type_val # Empty THEN type_val ELSE sOtherOther

\* the branches of _target_to_type on type1 and type2
reconcile_types(type1, type2) ==
    LET type_val ==
            IF _is_valid_parameter(type1) /\ ~ _is_valid_parameter(type2)
                THEN type1
            ELSE IF _is_valid_parameter(type2) /\ ~ _is_valid_parameter(type1)
                THEN type2
            ELSE IF ~ (_is_valid_parameter(type1) \/ _is_valid_parameter(type2))
                THEN sOtherOther
            ELSE IF type1 = type2 THEN type1
            ELSE IF _is_valid_parameter(type1) THEN type1
            ELSE sNANA
    IN  IF type_val # Empty THEN type_val ELSE sOtherOther

_target_to_type(tdf, fam, target_id) ==
    LET record == _target_record(tdf, target_id)
    IN  IF record = <<>> THEN sOtherOther
        ELSE reconcile_types(record[1].type,
                             _family_to_type(fam, record[1].family_id))

---------------------------------------------------------------------------
(* IUPHARClassifier: set_record and the by_* entry points.  Each gives an  *)
(* outcome: the record returned, or Raises / Diverges handed up from the   *)
(* lookup that did not return.                                             *)

\* set_record as by_target_id and by_family_id call it: status and
\* ec_numbers left at None
set_record(tdf, fam, iuphar_target_id, iuphar_family_id, iuphar_name) ==
    LET target_id == IF _is_valid_parameter(iuphar_target_id)
                     THEN iuphar_target_id ELSE sNA
        family_id ==
            IF ~ _is_valid_parameter(iuphar_family_id)
               /\ _is_valid_parameter(target_id)
            THEN LET own == from_target_family_id(tdf, target_id)
                 IN  IF own # Empty THEN own ELSE sNA
            ELSE iuphar_family_id
        name == IF _is_valid_parameter(iuphar_name) THEN iuphar_name ELSE sNA
        numbers == <<>>
        status == IF _is_valid_parameter(target_id) THEN "target_id"
                  ELSE IF _is_valid_parameter(family_id) THEN "family_id"
                  ELSE IF _is_valid_list(numbers) THEN "ec_number"
                  ELSE "N/A"
        type_val == IF _is_valid_parameter(target_id)
                        THEN _target_to_type(tdf, fam, target_id)
                    ELSE IF _is_valid_parameter(family_id)
                        THEN _family_to_type(fam, family_id)
                    ELSE sOtherOther
        tree == IF _is_valid_parameter(family_id)
                THEN _family_to_chain(fam, family_id)
                ELSE Ret(<<s0864_1, s0864>>)
    IN  IF tree.kind # "return" THEN tree
        ELSE Ret([IUPHAR_target_id |-> target_id,
                  IUPHAR_family_id |-> IF _is_valid_parameter(family_id)
                                       THEN family_id ELSE sNA,
                  IUPHAR_class |-> cls_part(type_val),
                  IUPHAR_subclass |-> sub_part(type_val),
                  IUPHAR_tree |-> tree.val,
                  IUPHAR_type |-> type_val,
                  IUPHAR_name |-> name,
                  IUPHAR_ecNumber |-> numbers,
                  STATUS |-> status])

by_target_id(tdf, fam, iuphar_target_id, optional_name) ==
    IF ~ _is_valid_parameter(iuphar_target_id) \/ InSeq("|", iuphar_target_id)
    THEN Ret(DefaultRecord)
    ELSE set_record(tdf, fam, iuphar_target_id,
                    from_target_family_id(tdf, iuphar_target_id), optional_name)

\* by_uniprot_id taking the accession itself for the target id
ByUniprotIdUnmapped(tdf, fam, uniprot_id) ==
    by_target_id(tdf, fam, uniprot_id, Empty)

by_uniprot_id(tdf, fam, uniprot_id) ==
    LET target_id == target_id_by_uniprot(tdf, uniprot_id)
    IN  IF target_id = Empty THEN Ret(DefaultRecord)
        ELSE by_target_id(tdf, fam, target_id, Empty)

by_family_id(tdf, fam, iuphar_family_id, optional_name) ==
    IF ~ _is_valid_parameter(iuphar_family_id) \/ InSeq("|", iuphar_family_id)
    THEN Ret(DefaultRecord)
    ELSE set_record(tdf, fam, sNA, iuphar_family_id, optional_name)

by_name(tdf, fam, iuphar_name) ==
    IF ~ _is_valid_parameter(iuphar_name) THEN Ret(DefaultRecord)
    ELSE LET target_id == target_id_by_name(tdf, iuphar_name)
             family_id == family_id_by_name(tdf, iuphar_name)
         IN  IF target_id.kind # "return" THEN target_id
             ELSE IF family_id.kind # "return" THEN family_id
             ELSE LET type_val ==
                          IF _is_valid_parameter(target_id.val)
                              THEN _target_to_type(tdf, fam, target_id.val)
                          ELSE IF _is_valid_parameter(family_id.val)
                              THEN _family_to_type(fam, family_id.val)
                          ELSE _name_to_type(iuphar_name)
                      tree == IF _is_valid_parameter(family_id.val)
                              THEN _family_to_chain(fam, family_id.val)
                              ELSE Ret(<<s864_1, s864>>)
                  IN  IF tree.kind # "return" THEN tree
                      ELSE Ret([IUPHAR_target_id |->
                                    IF _is_valid_parameter(target_id.val)
                                    THEN target_id.val ELSE sNA,
                                IUPHAR_family_id |->
                                    IF _is_valid_parameter(family_id.val)
                                    THEN family_id.val ELSE sNA,
                                IUPHAR_type |-> type_val,
                                IUPHAR_class |-> cls_part(type_val),
                                IUPHAR_subclass |-> sub_part(type_val),
                                IUPHAR_tree |-> tree.val,
                                IUPHAR_name |-> iuphar_name,
                                IUPHAR_ecNumber |-> <<>>,
                                STATUS |-> "name"])

\* get: the four partial records are computed in the order target, family,
\* EC, name before any is chosen, so a lookup that does not return ends the
\* call whatever the precedence would have picked
get(tdf, fam, iuphar_target_id, iuphar_family_id, iuphar_ec_number, iuphar_name) ==
    LET target_rec == IF _is_valid_parameter(iuphar_target_id)
                      THEN by_target_id(tdf, fam, iuphar_target_id, iuphar_name)
                      ELSE Ret(DefaultRecord)
        family_rec == IF _is_valid_parameter(iuphar_family_id)
                      THEN by_family_id(tdf, fam, iuphar_family_id, iuphar_name)
                      ELSE Ret(DefaultRecord)
        ec_rec == Ret(by_ec_number(iuphar_ec_number, iuphar_name))
        name_rec == by_name(tdf, fam, iuphar_name)
    IN  IF target_rec.kind # "return" THEN target_rec
        ELSE IF family_rec.kind # "return" THEN family_rec
        ELSE IF name_rec.kind # "return" THEN name_rec
        ELSE IF target_rec.val.STATUS \in {"target_id", "family_id"} THEN target_rec
        ELSE IF family_rec.val.STATUS = "family_id" THEN family_rec
        ELSE IF ec_rec.val.STATUS = "ec_number" THEN ec_rec
        ELSE IF name_rec.val.STATUS = "name" THEN name_rec
        ELSE Ret(DefaultRecord)

---------------------------------------------------------------------------
(* Specification SpecType: _target_to_type over catalogs whose target and  *)
(* family rows take every combination of valid and invalid type cells.     *)

TypeTargetRows ==
    {TargetRow(T1, Q1, Empty, f, t, T1) :
        f \in {Empty, F1},
        t \in {Empty, sOther, EnzymeTransferase, sNANA}}

TypeFamilyRows ==
    {FamilyRow(F1, Empty, t, F1) :
        t \in {Empty, sNA, EnzymeTransferase, IonChannelNA}}

TypeTargetIds == {T1, T2, sNA}

InitType ==
    /\ target_df \in SeqsUpTo(TypeTargetRows, MaxTargetRows)
    /\ family_df \in SeqsUpTo(TypeFamilyRows, MaxFamilyRows)
    /\ pc = "idle"
    /\ chain = <<>>
    /\ current = Empty
    /\ op = ""
    /\ args = <<>>
    /\ result = NoCall

_target_to_type_call ==
    \E target_id \in TypeTargetIds :
        /\ op = ""
        /\ op' = "_target_to_type"
        /\ args' = <<target_id>>
        /\ result' = Ret(_target_to_type(target_df, family_df, target_id))
        /\ UNCHANGED <<target_df, family_df, pc, chain, current>>

NextType ==
    \/ _target_to_type_call

SpecType == InitType /\ [][NextType]_vars

\* the first row of the target table with this id (there is one)
TargetRowOf(tdf, target_id) ==
    tdf[CHOOSE i \in 1..Len(tdf) :
            /\ tdf[i].target_id = target_id
            /\ \A j \in 1..(i - 1) : tdf[j].target_id # target_id]

\* the type cell of the first family row with this id, "" when none
FamilyTypeOf(fam, family_id) ==
    IF \E i \in 1..Len(fam) : fam[i].family_id = family_id
    THEN fam[CHOOSE i \in 1..Len(fam) :
                 /\ fam[i].family_id = family_id
                 /\ \A j \in 1..(i - 1) : fam[j].family_id # family_id].type
    ELSE Empty

\* a valid type: non-empty, not "N/A", not "Other Protein Target"
ValidType(t) == t # Empty /\ t # sNA /\ t # sOther

\* C6: for a target found in the catalog, with type1 its own type and
\* type2 its family's type: both invalid gives the default type, exactly
\* one valid gives that one, both valid gives type1 (equal or not), and
\* the result is never "".
C6_TargetToType ==
    (/\ op = "_target_to_type"
     /\ \E i \in 1..Len(target_df) : target_df[i].target_id = args[1]
     /\ _is_valid_parameter(args[1])) =>
        LET row == TargetRowOf(target_df, args[1])
            type1 == row.type
            type2 == FamilyTypeOf(family_df, row.family_id)
        IN  /\ result.val # Empty
            /\ (~ ValidType(type1) /\ ~ ValidType(type2)) => result.val = sOtherOther
            /\ (ValidType(type1) /\ ~ ValidType(type2)) => result.val = type1
            /\ (~ ValidType(type1) /\ ValidType(type2)) => result.val = type2
            /\ (ValidType(type1) /\ ValidType(type2)) => result.val = type1

\* C6 witness: a target whose own type and family type are both valid and
\* differ got its own type
C6_Witness ==
    /\ op = "_target_to_type"
    /\ args[1] = T1
    /\ Len(target_df) > 0
    /\ LET row == target_df[1]
       IN  /\ row.type = EnzymeTransferase
           /\ row.family_id = F1
           /\ FamilyTypeOf(family_df, F1) = IonChannelNA
    /\ result = Ret(EnzymeTransferase)

---------------------------------------------------------------------------
(* Specification SpecGet: get over catalogs of at most MaxTargetRows       *)
(* targets and MaxFamilyRows families and over requests that carry valid,  *)
(* empty, ambiguous and unknown values for each of the four sources.       *)

sAb == <<"A","b">>
sT1T2 == <<"T","1","|","T","2">>
sF1F2 == <<"F","1","|","F","2">>

GetTargetRows ==
    {TargetRow(T1, Q1, <<"a","b">>, F1, EnzymeTransferase, T1),
     TargetRow(T2, Q2, <<"a","b","c">>, F2, Empty, T2)}

GetFamilyRows ==
    {FamilyRow(F1, Empty, EnzymeTransferase, F1),
     FamilyRow(F2, F1, Empty, F2),
     FamilyRow(F2, F2, IonChannelNA, F2)}

GetTargetIds == {Empty, T1, sT1T2, <<"T","3">>}
GetFamilyIds == {Empty, F1, F2, sF1F2}
GetEcNumbers == {Empty, s1234}
GetNames     == {Empty, sAb, <<"a","[">>, kw_kinase}

InitGet ==
    /\ target_df \in SeqsUpTo(GetTargetRows, MaxTargetRows)
    /\ family_df \in SeqsUpTo(GetFamilyRows, MaxFamilyRows)
    /\ pc = "idle"
    /\ chain = <<>>
    /\ current = Empty
    /\ op = ""
    /\ args = <<>>
    /\ result = NoCall

get_call ==
    \E t \in GetTargetIds, f \in GetFamilyIds, e \in GetEcNumbers, n \in GetNames :
        /\ op = ""
        /\ op' = "get"
        /\ args' = <<t, f, e, n>>
        /\ result' = get(target_df, family_df, t, f, e, n)
        /\ UNCHANGED <<target_df, family_df, pc, chain, current>>

NextGet ==
    \/ get_call

SpecGet == InitGet /\ [][NextGet]_vars

\* an outcome is a returned record with this status
Resolves(outcome, status) ==
    outcome.kind = "return" /\ outcome.val.STATUS = status

\* the first of the EC and name records that resolves, else the default
EcThenName(tdf, fam, e, n) ==
    IF by_ec_number(e, n).STATUS = "ec_number" THEN Ret(by_ec_number(e, n))
    ELSE IF Resolves(by_name(tdf, fam, n), "name") THEN by_name(tdf, fam, n)
    ELSE Ret(DefaultRecord)

\* the first of the family, EC and name records that resolves
FamilyThenRest(tdf, fam, f, e, n) ==
    IF Resolves(by_family_id(tdf, fam, f, n), "family_id")
    THEN by_family_id(tdf, fam, f, n)
    ELSE EcThenName(tdf, fam, e, n)

\* the record of the highest-precedence source that resolves
ByPrecedence(tdf, fam, t, f, e, n) ==
    IF Resolves(by_target_id(tdf, fam, t, n), "target_id")
    THEN by_target_id(tdf, fam, t, n)
    ELSE FamilyThenRest(tdf, fam, f, e, n)

\* a valid, unambiguous identifier
ValidId(id) == id # Empty /\ id # sNA /\ id # sOther /\ ~ InSeq("|", id)

\* C4: get returns the partial record of the highest-precedence source
\* that resolves, in the order target_id > family_id > ec_number > name,
\* and the default record when none does; with all four inputs valid the
\* result is the target_id record.
C4_GetPrecedence ==
    op = "get" =>
        /\ result.kind = "return"
        /\ result = ByPrecedence(target_df, family_df,
                                 args[1], args[2], args[3], args[4])
        /\ (/\ ValidId(args[1]) /\ ValidId(args[2])
            /\ _is_valid_list(ec_numbers_of(args[3]))
            /\ _is_valid_parameter(args[4])) =>
               result.val.STATUS = "target_id"

\* C5: in get a target_id or family_id containing "|" is invalid for its
\* own branch: the record returned is that of the next source in
\* precedence order that resolves, never one with the ambiguous source's
\* status.
C5_GetAmbiguousFallsThrough ==
    op = "get" =>
        /\ InSeq("|", args[1]) =>
              /\ result.kind = "return"
              /\ result.val.STATUS # "target_id"
              /\ result = FamilyThenRest(target_df, family_df,
                                         args[2], args[3], args[4])
        /\ InSeq("|", args[2]) =>
              /\ result.kind = "return"
              /\ result.val.STATUS # "family_id"
              /\ ~ Resolves(by_target_id(target_df, family_df, args[1], args[4]),
                            "target_id")
                    => result = EcThenName(target_df, family_df, args[3], args[4])

---------------------------------------------------------------------------
(* Specification SpecUniprot: by_uniprot_id over target tables of at most  *)
(* MaxTargetRows rows (accessions shared between rows, rows with an empty  *)
(* or "N/A" id) and over rooted, nested and cyclic family tables.          *)

UniprotTargetRows ==
    {TargetRow(t, q, Empty, f, EnzymeTransferase, t) :
        t \in {Empty, T1, T2, sNA}, q \in {Q1, Q2}, f \in {F1, F2}}

UniprotFamilyTables ==
    { <<>>,
      <<FamilyRow(F1, Empty, IonChannelNA, F1)>>,
      <<FamilyRow(F2, F1, Empty, F2), FamilyRow(F1, Empty, IonChannelNA, F1)>>,
      <<FamilyRow(F1, F1, Empty, F1)>> }

UniprotAccessions == {Empty, Q1, Q2, <<"Q","3">>}

InitUniprot ==
    /\ target_df \in SeqsUpTo(UniprotTargetRows, MaxTargetRows)
    /\ family_df \in UniprotFamilyTables
    /\ pc = "idle"
    /\ chain = <<>>
    /\ current = Empty
    /\ op = ""
    /\ args = <<>>
    /\ result = NoCall

by_uniprot_id_call ==
    \E uniprot_id \in UniprotAccessions :
        /\ op = ""
        /\ op' = "by_uniprot_id"
        /\ args' = <<uniprot_id>>
        /\ result' = by_uniprot_id(target_df, family_df, uniprot_id)
        /\ UNCHANGED <<target_df, family_df, pc, chain, current>>

NextUniprot ==
    \/ by_uniprot_id_call

SpecUniprot == InitUniprot /\ [][NextUniprot]_vars

\* C10: by_uniprot_id(accession) is by_target_id(X) for X the target id
\* target_id_by_uniprot gives the accession, when X is not "", and the
\* default record when the accession maps to no target.
C10_UniprotRoundTrip ==
    op = "by_uniprot_id" =>
        LET X == target_id_by_uniprot(target_df, args[1])
        IN  /\ X # Empty => result = by_target_id(target_df, family_df, X, Empty)
            /\ X = Empty => result = Ret(DefaultRecord)

\* C10 witness: an accession that maps to a target with a family has been
\* classified with status target_id
C10_Witness ==
    /\ op = "by_uniprot_id"
    /\ target_id_by_uniprot(target_df, args[1]) = T1
    /\ result.kind = "return"
    /\ result.val.STATUS = "target_id"
    /\ result.val.IUPHAR_target_id = T1
    /\ Len(result.val.IUPHAR_tree) = 2

---------------------------------------------------------------------------
(* IUPHARData: the path builders and map_uniprot_file.                     *)

kw_enzyme == <<"e","n","z","y","m","e">>
sEnzyme == <<"E","n","z","y","m","e">>
sTargetOne == <<"T","a","r","g","e","t"," ","O","n","e">>
sFamilyOne == <<"F","a","m","i","l","y"," ","O","n","e">>
sFamilyTwo == <<"F","a","m","i","l","y"," ","T","w","o">>

from_target_name(tdf, target_id) ==
    LET record == from_target_record(tdf, target_id)
    IN  IF record = <<>> THEN Empty ELSE record[1].target_name

all_id(tdf, fam, target_id) ==
    LET family_id == from_target_family_id(tdf, target_id)
    IN  IF family_id = Empty THEN Ret(Empty)
        ELSE LET ids == family_chain(fam, family_id)
             IN  IF ids.kind # "return" THEN ids
                 ELSE Ret(target_id \o <<"#">> \o Join(">", ids.val))

\* the list all_name builds from the chain: the family_name of every id
\* that has a record, a name, and a name other than "enzyme" in any case
all_name_chain(fam, ids) ==
    LET kept == SelectSeq(ids, LAMBDA f :
                    /\ from_family_record(fam, f) # <<>>
                    /\ from_family_record(fam, f)[1].family_name # Empty
                    /\ Lower(from_family_record(fam, f)[1].family_name) # kw_enzyme)
    IN  [i \in 1..Len(kept) |-> from_family_record(fam, kept[i])[1].family_name]

all_name(tdf, fam, target_id) ==
    LET family_id == from_target_family_id(tdf, target_id)
    IN  IF family_id = Empty THEN Ret(Empty)
        ELSE LET ids == family_chain(fam, family_id)
             IN  IF ids.kind # "return" THEN ids
                 ELSE Ret(from_target_name(tdf, target_id) \o <<"#">>
                          \o Join(">", all_name_chain(fam, ids.val)))

\* map_uniprot_file._classify: the five classification columns of a row
_classify(tdf, fam, tid) ==
    IF tid = Empty
    THEN Ret([IUPHAR_family_id |-> Empty, IUPHAR_type |-> Empty,
              IUPHAR_class |-> Empty, IUPHAR_subclass |-> Empty,
              IUPHAR_chain |-> Empty])
    ELSE LET record == by_target_id(tdf, fam, tid, Empty)
         IN  IF record.kind # "return" THEN record
             ELSE Ret([IUPHAR_family_id |-> record.val.IUPHAR_family_id,
                       IUPHAR_type |-> record.val.IUPHAR_type,
                       IUPHAR_class |-> record.val.IUPHAR_class,
                       IUPHAR_subclass |-> record.val.IUPHAR_subclass,
                       IUPHAR_chain |-> Join(">", record.val.IUPHAR_tree)])

\* the columns map_uniprot_file adds to one row of the input, each the
\* outcome of the call that computes it
map_uniprot_file_columns(tdf, fam, row) ==
    LET tid == target_id_by_uniprot(tdf, row.uniprot_id)
    IN  [target_id |-> tid,
         class_df |-> _classify(tdf, fam, tid),
         full_id_path |-> all_id(tdf, fam, tid),
         full_name_path |-> all_name(tdf, fam, tid)]

\* map_uniprot_file on an input read as df = [columns, rows]: the frame it
\* returns (and writes), one row per input row with the input's cells kept
map_uniprot_file(tdf, fam, df) ==
    IF "uniprot_id" \notin df.columns THEN Raises
    ELSE LET cols == [i \in 1..Len(df.rows) |->
                         map_uniprot_file_columns(tdf, fam, df.rows[i])]
         IN  IF \E i \in 1..Len(cols) :
                    \/ cols[i].class_df.kind # "return"
                    \/ cols[i].full_id_path.kind # "return"
                    \/ cols[i].full_name_path.kind # "return"
             THEN Diverges
             ELSE Ret([i \in 1..Len(cols) |->
                          [uniprot_id |-> df.rows[i].uniprot_id,
                           ec_number |-> df.rows[i].ec_number,
                           target_id |-> cols[i].target_id,
                           IUPHAR_family_id |-> cols[i].class_df.val.IUPHAR_family_id,
                           IUPHAR_type |-> cols[i].class_df.val.IUPHAR_type,
                           IUPHAR_class |-> cols[i].class_df.val.IUPHAR_class,
                           IUPHAR_subclass |-> cols[i].class_df.val.IUPHAR_subclass,
                           IUPHAR_chain |-> cols[i].class_df.val.IUPHAR_chain,
                           full_id_path |-> cols[i].full_id_path.val,
                           full_name_path |-> cols[i].full_name_path.val]])

---------------------------------------------------------------------------
(* Specification SpecBatch: map_uniprot_file over catalogs whose targets   *)
(* have no family, a root family, a nested family, a family with no        *)
(* record, a family named "Enzyme" or a family that is its own parent, and *)
(* over inputs of at most MaxBatchRows rows with and without the           *)
(* uniprot_id column.                                                      *)

\* most rows in a generated input file
MaxBatchRows == 2

Q3 == <<"Q","3">>

BatchTargetRows ==
    {TargetRow(t, Q1, Empty, f, EnzymeTransferase, sTargetOne) :
        t \in {Empty, T1}, f \in {Empty, F1, F2}}
    \cup {TargetRow(T2, Empty, Empty, F1, EnzymeTransferase, sTargetOne)}

BatchFamilyTables ==
    { <<>>,
      <<FamilyRow(F1, Empty, IonChannelNA, sFamilyOne)>>,
      <<FamilyRow(F2, F1, Empty, sFamilyTwo),
        FamilyRow(F1, Empty, IonChannelNA, sFamilyOne)>>,
      <<FamilyRow(F2, F1, Empty, sFamilyTwo),
        FamilyRow(F1, Empty, EnzymeTransferase, sEnzyme)>>,
      <<FamilyRow(F2, F3, Empty, Empty)>>,
      <<FamilyRow(F1, F1, Empty, sFamilyOne)>> }

BatchInputRows ==
    { [uniprot_id |-> Q1, ec_number |-> Empty],
      [uniprot_id |-> Q3, ec_number |-> s1234],
      [uniprot_id |-> Empty, ec_number |-> Empty] }

BatchInputs ==
    [columns : {{"uniprot_id", "ec_number"}, {"ec_number"}},
     rows : SeqsUpTo(BatchInputRows, MaxBatchRows)]

InitBatch ==
    /\ target_df \in SeqsUpTo(BatchTargetRows, MaxTargetRows)
    /\ family_df \in BatchFamilyTables
    /\ pc = "idle"
    /\ chain = <<>>
    /\ current = Empty
    /\ op = ""
    /\ args = <<>>
    /\ result = NoCall

map_uniprot_file_call ==
    \E df \in BatchInputs :
        /\ op = ""
        /\ op' = "map_uniprot_file"
        /\ args' = <<df>>
        /\ result' = map_uniprot_file(target_df, family_df, df)
        /\ UNCHANGED <<target_df, family_df, pc, chain, current>>

NextBatch ==
    \/ map_uniprot_file_call

SpecBatch == InitBatch /\ [][NextBatch]_vars

s0690_1_0690 == <<"0","6","9","0","-","1",">","0","6","9","0">>

\* C11: in the frame map_uniprot_file returns, a row whose accession maps
\* to no target and whose EC number classifies (by_ec_number gives status
\* "ec_number") has an empty target_id and the class, subclass and
\* ">"-joined chain of that EC record; for the EC number 1.2.3.4 these are
\* Enzyme, Oxidoreductase and "0690-1>0690".
C11_EcFallback ==
    (op = "map_uniprot_file" /\ result.kind = "return") =>
        \A i \in 1..Len(result.val) :
            LET row == result.val[i]
                rec == by_ec_number(row.ec_number, Empty)
            IN  (/\ target_id_by_uniprot(target_df, row.uniprot_id) = Empty
                 /\ rec.STATUS = "ec_number") =>
                    /\ row.target_id = Empty
                    /\ row.IUPHAR_class = rec.IUPHAR_class
                    /\ row.IUPHAR_subclass = rec.IUPHAR_subclass
                    /\ row.IUPHAR_chain = Join(">", rec.IUPHAR_tree)
                    /\ row.ec_number = s1234 =>
                           /\ row.IUPHAR_class = sEnzyme
                           /\ row.IUPHAR_chain = s0690_1_0690

\* the index of the first family row with this id, 0 when none
FirstFamilyRow(fam, family_id) ==
    IF \E i \in 1..Len(fam) : fam[i].family_id = family_id
    THEN CHOOSE i \in 1..Len(fam) :
             /\ fam[i].family_id = family_id
             /\ \A j \in 1..(i - 1) : fam[j].family_id # family_id
    ELSE 0

\* the ids from family_id towards the root, nearest first, for a family
\* table in which that walk ends within n ids
RECURSIVE NearestFirst(_, _, _)
NearestFirst(fam, family_id, n) ==
    IF family_id = Empty \/ n = 0 THEN <<>>
    ELSE LET r == FirstFamilyRow(fam, family_id)
         IN  <<family_id>> \o
             (IF r = 0 THEN <<>>
              ELSE NearestFirst(fam, fam[r].parent_family_id, n - 1))

\* the family names along a chain, the label "enzyme" left out
RECURSIVE NamesAlong(_, _)
NamesAlong(fam, ids) ==
    IF ids = <<>> THEN <<>>
    ELSE LET r == FirstFamilyRow(fam, Head(ids))
             rest == NamesAlong(fam, Tail(ids))
         IN  IF r = 0 THEN rest
             ELSE IF Lower(fam[r].family_name) = kw_enzyme THEN rest
             ELSE <<fam[r].family_name>> \o rest

\* C12: in the frame map_uniprot_file returns, a row whose accession
\* resolves to a target has full_id_path = target_id, "#", the target's
\* family chain joined by ">", and full_name_path = target_name, "#", the
\* family names of that chain joined by ">" without the label "enzyme";
\* a row whose target is unresolved has both paths empty.
C12_FullPaths ==
    (op = "map_uniprot_file" /\ result.kind = "return") =>
        \A i \in 1..Len(result.val) :
            LET row == result.val[i]
            IN  IF row.target_id = Empty
                THEN row.full_id_path = Empty /\ row.full_name_path = Empty
                ELSE LET target == TargetRowOf(target_df, row.target_id)
                         ids == NearestFirst(family_df, target.family_id,
                                             Len(family_df) + 1)
                     IN  /\ row.full_id_path =
                                row.target_id \o <<"#">> \o Join(">", ids)
                         /\ row.full_name_path =
                                target.target_name \o <<"#">>
                                \o Join(">", NamesAlong(family_df, ids))

---------------------------------------------------------------------------
(* Specification SpecTree: the family_chain loop of Spec, one iteration    *)
(* per step, together with by_target_id on targets of those family tables. *)

TreeTargetRows ==
    {TargetRow(T1, Q1, Empty, f, Empty, T1) : f \in {Empty, F1, F2, F3, sNA}}

\* no target, one target, and two rows for one target id
TreeTargetTables ==
    {<<>>} \cup {<<r>> : r \in TreeTargetRows}
    \cup {<<TargetRow(T1, Q1, Empty, F2, Empty, T1),
            TargetRow(T1, Q1, Empty, F1, Empty, T1)>>}

TreeTargetIds == {T1, T2, sNA}

InitTree ==
    /\ family_df \in ChainFamilyTables
    /\ target_df \in TreeTargetTables
    /\ pc = "idle"
    /\ chain = <<>>
    /\ current = Empty
    /\ op = ""
    /\ args = <<>>
    /\ result = NoCall

by_target_id_call ==
    \E iuphar_target_id \in TreeTargetIds :
        /\ pc = "idle"
        /\ op \in {"", "family_chain"}
        /\ op' = "by_target_id"
        /\ args' = <<iuphar_target_id>>
        /\ result' = by_target_id(target_df, family_df, iuphar_target_id, Empty)
        /\ UNCHANGED <<target_df, family_df, pc, chain, current>>

NextTree ==
    \/ family_chain_call
    \/ family_chain_iterate
    \/ family_chain_return
    \/ by_target_id_call

SpecTree == InitTree /\ [][NextTree]_vars

---------------------------------------------------------------------------
(* io_utils.load_targets and the identifier lookups of IUPHARData that     *)
(* read a column by name.  A table's columns are the set of their names;   *)
(* df[col] on a table without that column raises KeyError.                 *)

EXPECTED_TARGET_COLUMNS ==
    {"target_id", "swissprot", "hgnc_name", "hgnc_id", "gene_name",
     "synonyms", "family_id", "target_name"}

\* df.rename(columns={...}) of load_targets, on the column names
load_targets_rename(columns) ==
    {IF c \in {"HGNC_NAME", "HGNC_name"} THEN "hgnc_name"
     ELSE IF c \in {"HGNC_ID", "HGNC_id"} THEN "hgnc_id"
     ELSE c : c \in columns}

\* the columns of the table load_targets returns for a file with the given
\* header; ValueError when an expected column is missing after the rename
load_targets_columns(header) ==
    LET columns == load_targets_rename(header)
    IN  IF EXPECTED_TARGET_COLUMNS \subseteq columns
        THEN Ret(columns) ELSE Raises

target_id_by_hgnc_name(columns, tdf, hgnc_name) ==
    IF hgnc_name = Empty THEN Ret(Empty)
    ELSE IF "HGNC_NAME" \notin columns THEN Raises
    ELSE Ret(Join("|", _select_target_ids(
                 SelectSeq(tdf, LAMBDA r : r["HGNC_NAME"] = hgnc_name))))

target_id_by_hgnc_id(columns, tdf, hgnc_id) ==
    IF "HGNC_ID" \notin columns THEN Raises
    ELSE Ret(Join("|", _select_target_ids(
                 SelectSeq(tdf, LAMBDA r : r["HGNC_ID"] = hgnc_id))))

target_id_by_gene(columns, tdf, gene_name) ==
    IF "gene_name" \notin columns THEN Raises
    ELSE Ret(Join("|", _select_target_ids(
                 SelectSeq(tdf, LAMBDA r : r["gene_name"] = gene_name))))

\* target_id_from_row on row = [uniprot_id, HGNC_name, HGNC_id]; the three
\* lookups are made in this order before their results are combined
target_id_from_row(columns, tdf, row) ==
    LET uniprot == target_id_by_uniprot(tdf, row.uniprot_id)
        hgnc_name == target_id_by_hgnc_name(columns, tdf, row.HGNC_name)
        hgnc_id == target_id_by_hgnc_id(columns, tdf, row.HGNC_id)
    IN  IF hgnc_name.kind # "return" THEN hgnc_name
        ELSE IF hgnc_id.kind # "return" THEN hgnc_id
        ELSE LET all_ids == SelectSeq(<<uniprot, hgnc_name.val, hgnc_id.val>>,
                                      LAMBDA x : x # Empty)
                 unique == UNION {Elems(Split(all_ids[k], "|")) :
                                     k \in 1..Len(all_ids)} \ {Empty}
             IN  IF unique = {} THEN Ret(sNA)
                 ELSE Ret(Join("|", Sorted(unique)))

from_target_type(tdf, target_id) ==
    LET record == from_target_record(tdf, target_id)
    IN  IF record = <<>> THEN Empty ELSE record[1].type

---------------------------------------------------------------------------
(* Specification SpecIds: the identifier lookups and projections over      *)
(* catalogs load_targets / load_families build: target tables of at most   *)
(* MaxTargetRows rows in either order of ids, read from files with the     *)
(* lower-case or a legacy header.                                          *)

G1 == <<"G","1">>
G2 == <<"G","2">>

\* file headers: the expected one, the two legacy spellings, an optional
\* type column, and one without gene_name (which load_targets rejects)
TargetFileHeaders ==
    { EXPECTED_TARGET_COLUMNS,
      EXPECTED_TARGET_COLUMNS \cup {"type"},
      (EXPECTED_TARGET_COLUMNS \ {"hgnc_name", "hgnc_id"}) \cup {"HGNC_NAME", "HGNC_ID"},
      (EXPECTED_TARGET_COLUMNS \ {"hgnc_name", "hgnc_id"}) \cup {"HGNC_name", "HGNC_id"},
      EXPECTED_TARGET_COLUMNS \ {"gene_name"} }

\* the column sets of the tables load_targets returns
LoadedTargetColumns ==
    {load_targets_columns(h).val :
        h \in {g \in TargetFileHeaders : load_targets_columns(g).kind = "return"}}

\* the gene symbol stands in the three gene columns and in the synonyms
IdTargetRows ==
    {[TargetRow(t, Q1, g, F1, EnzymeTransferase, t)
         EXCEPT !.hgnc_name = g, !.hgnc_id = g, !.gene_name = g] :
        t \in {T1, T2}, g \in {Empty, G1}}

IdFamilyTables == {<<>>, <<FamilyRow(F1, Empty, IonChannelNA, F1)>>}

IdQueries == {Empty, G1, G2, T1, F1, Q1}

InitIds ==
    /\ target_df \in SeqsUpTo(IdTargetRows, MaxTargetRows)
    /\ family_df \in IdFamilyTables
    /\ pc = "idle"
    /\ chain = <<>>
    /\ current = Empty
    /\ op = ""
    /\ args = <<>>
    /\ result = NoCall

\* the header of the file the catalog was read from is fixed with the
\* catalog; no lookup changes it, so it is drawn where it is first read
target_id_by_hgnc_name_call ==
    \E columns \in LoadedTargetColumns, q \in IdQueries :
        /\ op = ""
        /\ op' = "target_id_by_hgnc_name"
        /\ args' = <<q>>
        /\ result' = target_id_by_hgnc_name(columns, target_df, q)
        /\ UNCHANGED <<target_df, family_df, pc, chain, current>>

target_id_by_hgnc_id_call ==
    \E columns \in LoadedTargetColumns, q \in IdQueries :
        /\ op = ""
        /\ op' = "target_id_by_hgnc_id"
        /\ args' = <<q>>
        /\ result' = target_id_by_hgnc_id(columns, target_df, q)
        /\ UNCHANGED <<target_df, family_df, pc, chain, current>>

target_id_by_gene_call ==
    \E columns \in LoadedTargetColumns, q \in IdQueries :
        /\ op = ""
        /\ op' = "target_id_by_gene"
        /\ args' = <<q>>
        /\ result' = target_id_by_gene(columns, target_df, q)
        /\ UNCHANGED <<target_df, family_df, pc, chain, current>>

target_id_by_uniprot_call ==
    \E q \in IdQueries :
        /\ op = ""
        /\ op' = "target_id_by_uniprot"
        /\ args' = <<q>>
        /\ result' = Ret(target_id_by_uniprot(target_df, q))
        /\ UNCHANGED <<target_df, family_df, pc, chain, current>>

target_id_from_row_call ==
    \E columns \in LoadedTargetColumns, u \in {Empty, Q1}, q \in {Empty, G1, G2} :
        /\ op = ""
        /\ op' = "target_id_from_row"
        /\ args' = <<[uniprot_id |-> u, HGNC_name |-> q, HGNC_id |-> q]>>
        /\ result' = target_id_from_row(columns, target_df, args'[1])
        /\ UNCHANGED <<target_df, family_df, pc, chain, current>>

from_target_call ==
    \E q \in IdQueries, f \in {"from_target_name", "from_target_family_id", "from_target_type"} :
        /\ op = ""
        /\ op' = f
        /\ args' = <<q>>
        /\ result' = Ret(CASE f = "from_target_name" -> from_target_name(target_df, q)
                           [] f = "from_target_family_id" -> from_target_family_id(target_df, q)
                           [] f = "from_target_type" -> from_target_type(target_df, q))
        /\ UNCHANGED <<target_df, family_df, pc, chain, current>>

from_family_type_call ==
    \E q \in IdQueries :
        /\ op = ""
        /\ op' = "from_family_type"
        /\ args' = <<q>>
        /\ result' = Ret(from_family_type(family_df, q))
        /\ UNCHANGED <<target_df, family_df, pc, chain, current>>

NextIds ==
    \/ target_id_by_hgnc_name_call
    \/ target_id_by_hgnc_id_call
    \/ target_id_by_gene_call
    \/ target_id_by_name_call
    \/ target_id_by_uniprot_call
    \/ target_id_from_row_call
    \/ from_target_call
    \/ from_family_type_call

SpecIds == InitIds /\ [][NextIds]_vars

\* the ids of the target rows whose cell in the given column equals q
IdsWithCell(tdf, column, q) ==
    {tdf[i].target_id : i \in {j \in 1..Len(tdf) : tdf[j][column] = q}}

\* the ids of the target rows whose synonyms contain q, letter case ignored
IdsWithSynonym(tdf, q) ==
    {tdf[i].target_id :
        i \in {j \in 1..Len(tdf) : StrContains(Lower(tdf[j].synonyms), Lower(q))}}

\* C14: target_id_by_hgnc_name, target_id_by_hgnc_id, target_id_by_gene and
\* target_id_by_name return the ids of the matching rows, each once, joined
\* by "|" in ascending order, in whatever order the rows stand in the table.
C14_SortedUniqueIds ==
    /\ (op = "target_id_by_hgnc_name" /\ args[1] # Empty) =>
           result = Ret(Join("|", Sorted(IdsWithCell(target_df, "hgnc_name", args[1]))))
    /\ op = "target_id_by_hgnc_id" =>
           result = Ret(Join("|", Sorted(IdsWithCell(target_df, "hgnc_id", args[1]))))
    /\ op = "target_id_by_gene" =>
           result = Ret(Join("|", Sorted(IdsWithCell(target_df, "gene_name", args[1]))))
    /\ (op = "target_id_by_name" /\ args[1] # Empty) =>
           result = Ret(Join("|", Sorted(IdsWithSynonym(target_df, args[1]))))

\* C15: on a catalog built by the loader every lookup returns, whatever
\* the query: target_id_by_uniprot, target_id_by_hgnc_name,
\* target_id_by_hgnc_id, target_id_by_gene, target_id_from_row, the target
\* name, family_id and type projections and the family type; and what it
\* returns is "" when no record matches the query.
C15_LookupsNeverRaise ==
    /\ op \in {"target_id_by_uniprot", "target_id_by_hgnc_name",
               "target_id_by_hgnc_id", "target_id_by_gene",
               "target_id_from_row", "from_target_name",
               "from_target_family_id", "from_target_type",
               "from_family_type"} => result.kind = "return"
    /\ (op = "target_id_by_uniprot" /\ result.kind = "return"
        /\ IdsWithCell(target_df, "swissprot", args[1]) = {}) => result.val = Empty
    /\ (op = "target_id_by_hgnc_name" /\ result.kind = "return"
        /\ IdsWithCell(target_df, "hgnc_name", args[1]) = {}) => result.val = Empty
    /\ (op = "target_id_by_hgnc_id" /\ result.kind = "return"
        /\ IdsWithCell(target_df, "hgnc_id", args[1]) = {}) => result.val = Empty
    /\ (op = "target_id_by_gene" /\ result.kind = "return"
        /\ IdsWithCell(target_df, "gene_name", args[1]) = {}) => result.val = Empty
    /\ (op \in {"from_target_name", "from_target_family_id", "from_target_type"}
        /\ result.kind = "return"
        /\ IdsWithCell(target_df, "target_id", args[1]) = {}) => result.val = Empty
    /\ (op = "from_family_type" /\ result.kind = "return"
        /\ \A k \in 1..Len(family_df) : family_df[k].family_id # args[1]) =>
           result.val = Empty

---------------------------------------------------------------------------
(* Specification SpecRecord: every entry point that returns a              *)
(* ClassificationRecord, and map_uniprot_file, over catalogs whose type    *)
(* cells are empty, have no dot, two components or three.                  *)

sKinase == <<"K","i","n","a","s","e">>
sThreeParts == <<"a",".","b",".","c">>

\* the catalogs: (target table, family table)
RecordCatalogs ==
    { <<<<>>, <<>>>>,
      <<<<TargetRow(T1, Q1, sAb, Empty, sKinase, sTargetOne)>>, <<>>>>,
      <<<<TargetRow(T1, Q1, sAb, F1, Empty, sTargetOne)>>, <<>>>>,
      <<<<TargetRow(T1, Q1, sAb, F1, Empty, sTargetOne)>>,
        <<FamilyRow(F1, Empty, sKinase, sFamilyOne)>>>>,
      <<<<TargetRow(T1, Q1, sAb, F1, sThreeParts, sTargetOne)>>,
        <<FamilyRow(F2, F1, Empty, sFamilyTwo),
          FamilyRow(F1, Empty, IonChannelNA, sFamilyOne)>>>>,
      <<<<TargetRow(T1, Q1, sAb, F2, EnzymeTransferase, sTargetOne),
          TargetRow(T2, Q2, sAb, F1, Empty, sTargetOne)>>,
        <<FamilyRow(F2, F1, Empty, sFamilyTwo),
          FamilyRow(F1, Empty, IonChannelNA, sFamilyOne)>>>> }

InitRecord ==
    /\ \E c \in RecordCatalogs : target_df = c[1] /\ family_df = c[2]
    /\ pc = "idle"
    /\ chain = <<>>
    /\ current = Empty
    /\ op = ""
    /\ args = <<>>
    /\ result = NoCall

by_family_id_call ==
    \E iuphar_family_id \in GetFamilyIds :
        /\ op = ""
        /\ op' = "by_family_id"
        /\ args' = <<iuphar_family_id>>
        /\ result' = by_family_id(target_df, family_df, iuphar_family_id, Empty)
        /\ UNCHANGED <<target_df, family_df, pc, chain, current>>

by_name_call ==
    \E iuphar_name \in GetNames :
        /\ op = ""
        /\ op' = "by_name"
        /\ args' = <<iuphar_name>>
        /\ result' = by_name(target_df, family_df, iuphar_name)
        /\ UNCHANGED <<target_df, family_df, pc, chain, current>>

NextRecord ==
    \/ by_target_id_call
    \/ by_family_id_call
    \/ by_ec_number_call
    \/ by_name_call
    \/ get_call
    \/ map_uniprot_file_call

SpecRecord == InitRecord /\ [][NextRecord]_vars

\* the positions of the dots of a type
DotsOf(t) == {i \in 1..Len(t) : t[i] = "."}

\* the k-th dot of a type that has at least k dots
NthDot(t, k) ==
    CHOOSE i \in DotsOf(t) : Cardinality({j \in DotsOf(t) : j < i}) = k - 1

\* the first dot-separated component of a type
FirstComponent(t) ==
    IF DotsOf(t) = {} THEN t ELSE SubSeq(t, 1, NthDot(t, 1) - 1)

\* the second dot-separated component of a type that has a dot
SecondComponent(t) ==
    IF Cardinality(DotsOf(t)) = 1 THEN SubSeq(t, NthDot(t, 1) + 1, Len(t))
    ELSE SubSeq(t, NthDot(t, 1) + 1, NthDot(t, 2) - 1)

\* class and subclass are the components of the type
ComponentsOfType(t, class, subclass) ==
    /\ class = FirstComponent(t)
    /\ subclass = IF DotsOf(t) = {} THEN sOther ELSE SecondComponent(t)

\* C16: in every record by_target_id, by_family_id, by_ec_number, by_name
\* or get returns, and in the classification columns of every row of the
\* frame map_uniprot_file returns, class is the first dot-separated
\* component of type and subclass the second; when type has no dot,
\* subclass is "Other Protein Target".
C16_ClassSubclassOfType ==
    /\ (op \in {"by_target_id", "by_family_id", "by_ec_number", "by_name", "get"}
        /\ result.kind = "return") =>
           ComponentsOfType(result.val.IUPHAR_type, result.val.IUPHAR_class,
                            result.val.IUPHAR_subclass)
    /\ (op = "map_uniprot_file" /\ result.kind = "return") =>
           \A i \in 1..Len(result.val) :
               ComponentsOfType(result.val[i].IUPHAR_type,
                                result.val[i].IUPHAR_class,
                                result.val[i].IUPHAR_subclass)

---------------------------------------------------------------------------
(* classification_library: tables.  A DataFrame is [columns, rows]: the    *)
(* set of its column names and the sequence of its rows, each a record of  *)
(* cells.  A str cell is a Python str or NA (pandas' missing value), an    *)
(* Int64 cell a natural number or NaInt.                                   *)

\* the missing value of a str column; no Python str equals it
NA == <<"<NA>">>
\* the missing value of an Int64 column
NaInt == -1

\* str(pd.NA)
sNAToken == <<"<","N","A",">">>

Digits == <<"0","1","2","3","4","5","6","7","8","9">>

\* str(n) for an int n >= 0
RECURSIVE IntToStr(_)
IntToStr(n) ==
    IF n < 10 THEN <<Digits[n + 1]>>
    ELSE IntToStr(n \div 10) \o <<Digits[(n % 10) + 1]>>

\* list(chain.from_iterable(lists))
RECURSIVE Flatten(_)
Flatten(lists) ==
    IF lists = <<>> THEN <<>> ELSE Head(lists) \o Flatten(Tail(lists))

\* x.lower() if isinstance(x, str) else x
to_lower_if_text(x) == IF x = NA THEN NA ELSE Lower(x)

Whitespace == {" ", "\t", "\n", "\r"}

\* t.strip()
RECURSIVE Strip(_)
Strip(t) ==
    IF t = <<>> THEN t
    ELSE IF Head(t) \in Whitespace THEN Strip(Tail(t))
    ELSE IF t[Len(t)] \in Whitespace THEN Strip(SubSeq(t, 1, Len(t) - 1))
    ELSE t

sSynonymsTag == <<"s","y","n","o","n","y","m","s","=">>

\* t.replace(old, "")
RECURSIVE Remove(_, _)
Remove(t, old) ==
    IF Len(t) < Len(old) THEN t
    ELSE IF SubSeq(t, 1, Len(old)) = old
        THEN Remove(SubSeq(t, Len(old) + 1, Len(t)), old)
    ELSE <<Head(t)>> \o Remove(Tail(t), old)

\* split_and_clean on the cells of a row after astype("string"): a
\* missing cell is pd.NA, which is not None and whose str() is "<NA>"
split_and_clean(texts) ==
    LET strs == [i \in 1..Len(texts) |->
                    IF texts[i] = NA THEN sNAToken ELSE texts[i]]
        non_null == SelectSeq(strs, LAMBDA t : t # Empty)
        split_lists == [i \in 1..Len(non_null) |-> Split(non_null[i], "|")]
        flat == Flatten(split_lists)
        trimmed == [i \in 1..Len(flat) |-> Strip(flat[i])]
        no_tag == [i \in 1..Len(trimmed) |-> Remove(trimmed[i], sSynonymsTag)]
        non_empty == SelectSeq(no_tag, LAMBDA t : t # Empty)
    IN  Unique(non_empty)

\* raise ValueError("Missing required columns: " + ", ".join(missing)):
\* the outcome carries the names the message lists, in its order
ValueError(missing) == [kind |-> "raise", missing |-> missing]

\* validate_columns naming only the first missing column
ValidateColumnsFirstOnly(columns, required) ==
    LET missing == SelectSeq(required, LAMBDA col : col \notin columns)
    IN  IF missing # <<>> THEN ValueError(<<missing[1]>>) ELSE Ret(<<>>)

\* validate_columns: the outcome, Ret(<<>>) standing for return None
validate_columns(columns, required) ==
    LET missing == SelectSeq(required, LAMBDA col : col \notin columns)
    IN  IF missing # <<>> THEN ValueError(missing) ELSE Ret(<<>>)

\* the columns get_table requires
required ==
    <<"chembl_id", "target_id", "IUPHAR_family_id", "IUPHAR_type",
      "IUPHAR_class", "IUPHAR_subclass", "IUPHAR_chain", "full_id_path",
      "full_name_path", "gene", "component_description", "names_x",
      "chembl_alternative_name">>

\* a < b for the sort of a str key column: missing values last
StrCellLess(a, b) == a # NA /\ (b = NA \/ StrLess(a, b))

\* a < b for the sort of an Int64 key column: missing values last
IntCellLess(a, b) == a # NaInt /\ (b = NaInt \/ a < b)

\* group_cols of get_table, as the key of a row
group_key(r) ==
    <<r.chembl_id, r.target_id, r.IUPHAR_family_id, r.IUPHAR_type,
      r.IUPHAR_class, r.IUPHAR_subclass, r.IUPHAR_chain, r.full_id_path,
      r.full_name_path, r.gene_name>>

\* the order groupby(group_cols, dropna=False) gives its groups
group_key_less(k1, k2) ==
    \E i \in 1..Len(k1) :
        /\ \A j \in 1..(i - 1) : k1[j] = k2[j]
        /\ IF i \in {2, 3} THEN IntCellLess(k1[i], k2[i])
           ELSE StrCellLess(k1[i], k2[i])

RECURSIVE sorted_group_keys(_)
sorted_group_keys(keys) ==
    IF keys = {} THEN <<>>
    ELSE LET least == CHOOSE k \in keys :
                          \A other \in keys \ {k} : group_key_less(k, other)
         IN  <<least>> \o sorted_group_keys(keys \ {least})

\* the rows of get_table before grouping: text columns lowered, gene_name
\* and _alternative_names added, the columns of `selected` kept
get_table_selected(r) ==
    LET gene == to_lower_if_text(r.gene)
    IN  [chembl_id |-> r.chembl_id, target_id |-> r.target_id,
         IUPHAR_family_id |-> r.IUPHAR_family_id, IUPHAR_type |-> r.IUPHAR_type,
         IUPHAR_class |-> r.IUPHAR_class, IUPHAR_subclass |-> r.IUPHAR_subclass,
         IUPHAR_chain |-> r.IUPHAR_chain, full_id_path |-> r.full_id_path,
         full_name_path |-> r.full_name_path,
         gene_name |-> IF gene = NA THEN NA ELSE Split(gene, "|")[1],
         _alternative_names |-> split_and_clean(
             <<gene, to_lower_if_text(r.component_description),
               to_lower_if_text(r.names_x),
               to_lower_if_text(r.chembl_alternative_name)>>)]

\* the explode without the filter on the names
GetTableExplodeUnfiltered(selected, key) ==
    LET members == SelectSeq(selected, LAMBDA r : group_key(r) = key)
        names == Unique(Flatten([i \in 1..Len(members) |->
                                    members[i]._alternative_names]))
        exploded == IF names = <<>> THEN <<NA>> ELSE names
    IN  [i \in 1..Len(exploded) |->
            [members[1] EXCEPT !._alternative_names = exploded[i]]]

\* one group of `grouped` exploded: a row per name of combine_unique, in
\* first-seen order (an empty list explodes to one row with a missing name,
\* which `filtered` drops)
get_table_explode(selected, key) ==
    LET members == SelectSeq(selected, LAMBDA r : group_key(r) = key)
        names == Unique(Flatten([i \in 1..Len(members) |->
                                    members[i]._alternative_names]))
        exploded == IF names = <<>> THEN <<NA>> ELSE names
        kept == SelectSeq(exploded, LAMBDA n : n # NA /\ n # Empty)
    IN  [i \in 1..Len(kept) |->
            [members[1] EXCEPT !._alternative_names = kept[i]]]

\* get_table: ValueError, or the rows of the table it returns (grouped by
\* the identity key, exploded, indexed)
get_table(source) ==
    LET valid == validate_columns(source.columns, required)
    IN  IF valid.kind # "return" THEN valid
        ELSE LET selected == [i \in 1..Len(source.rows) |->
                                 get_table_selected(source.rows[i])]
                 keys == sorted_group_keys(
                             {group_key(selected[i]) : i \in 1..Len(selected)})
                 filtered == Flatten([g \in 1..Len(keys) |->
                                         get_table_explode(selected, keys[g])])
             IN  Ret([i \in 1..Len(filtered) |->
                         [chembl_id |-> filtered[i].chembl_id,
                          target_id |-> filtered[i].target_id,
                          IUPHAR_family_id |-> filtered[i].IUPHAR_family_id,
                          IUPHAR_type |-> filtered[i].IUPHAR_type,
                          IUPHAR_class |-> filtered[i].IUPHAR_class,
                          IUPHAR_subclass |-> filtered[i].IUPHAR_subclass,
                          IUPHAR_chain |-> filtered[i].IUPHAR_chain,
                          full_id_path |-> filtered[i].full_id_path,
                          full_name_path |-> filtered[i].full_name_path,
                          gene_name |-> filtered[i].gene_name,
                          _alternative_names |-> filtered[i]._alternative_names,
                          Index |-> i - 1]])

\* the curated composite keys (str(IUPHAR_family_id) + str(Index))
sKey521825 == <<"5","2","1","8","2","5">>
sKey3271956 == <<"3","2","7","1","9","5","6">>
sKey176838 == <<"1","7","6","8","3","8">>
sKey3231184 == <<"3","2","3","1","1","8","4">>
sKey49639 == <<"4","9","6","3","9">>
sKey5721806 == <<"5","7","2","1","8","0","6">>
sKey7381101 == <<"7","3","8","1","1","0","1">>
sKey765326 == <<"7","6","5","3","2","6">>
sKey8401880 == <<"8","4","0","1","8","8","0">>

\* the keys build_base excludes
exclusion_keys == {sKey521825, sKey3271956}

\* `keep` of get_multyply
keep == {sKey176838, sKey3231184, sKey49639, sKey5721806, sKey7381101,
         sKey765326, sKey8401880}

\* a row of `joined` that has a match: the left row's own columns, the
\* matched row's columns under the names the rename gives them, and Merged
build_base_joined(left, right) ==
    [chembl_id |-> left.chembl_id, gene_name |-> left.gene_name,
     _alternative_names |-> left._alternative_names, Index |-> left.Index,
     chembl_id_1 |-> right.chembl_id, target_id |-> right.target_id,
     IUPHAR_family_id |-> right.IUPHAR_family_id,
     IUPHAR_type |-> right.IUPHAR_type, IUPHAR_class |-> right.IUPHAR_class,
     IUPHAR_subclass |-> right.IUPHAR_subclass,
     IUPHAR_chain |-> right.IUPHAR_chain, full_id_path |-> right.full_id_path,
     full_name_path |-> right.full_name_path, gene_name_1 |-> right.gene_name,
     gene_match |-> IF left.gene_name = NA \/ right.gene_name = NA THEN "<NA>"
                    ELSE IF left.gene_name = right.gene_name THEN "True"
                    ELSE "False",
     Merged |-> IF right.IUPHAR_family_id = NaInt THEN NA
                ELSE IntToStr(right.IUPHAR_family_id) \o IntToStr(left.Index)]

\* keep_with_type with Merged, before the exclusion: the left join of the
\* rows without a type to the rows with one, on _alternative_names, cut to
\* the rows whose joined IUPHAR_type is not missing (the rows with a match)
build_base_keep_with_type(source) ==
    LET done == SelectSeq(source, LAMBDA r :
                    /\ r._alternative_names # NA
                    /\ r._alternative_names # Empty
                    /\ r.IUPHAR_type # NA)
        filter_null_type == SelectSeq(source, LAMBDA r : r.IUPHAR_type = NA)
    IN  Flatten([i \in 1..Len(filter_null_type) |->
            LET left == filter_null_type[i]
                matches == SelectSeq(done, LAMBDA r :
                               r._alternative_names = left._alternative_names)
            IN  [j \in 1..Len(matches) |-> build_base_joined(left, matches[j])]])

\* the exclusion filter without effect
BuildBaseNoExclusion(source) ==
    build_base_keep_with_type(source)

build_base(source) ==
    SelectSeq(build_base_keep_with_type(source),
              LAMBDA r : r.Merged \notin exclusion_keys)

\* group_cols of Stage D, as the key of a row
count_key(r) == <<r.chembl_id, r.gene_name, r.Index>>

\* the order groupby(group_cols) gives its groups
count_key_less(k1, k2) ==
    \/ StrLess(k1[1], k2[1])
    \/ k1[1] = k2[1] /\ StrLess(k1[2], k2[2])
    \/ k1[1] = k2[1] /\ k1[2] = k2[2] /\ k1[3] < k2[3]

RECURSIVE sorted_count_keys(_)
sorted_count_keys(keys) ==
    IF keys = {} THEN <<>>
    ELSE LET least == CHOOSE k \in keys :
                          \A other \in keys \ {k} : count_key_less(k, other)
         IN  <<least>> \o sorted_count_keys(keys \ {least})

\* base.groupby(group_cols).size().reset_index(name="Count"): the keys in
\* sorted order with their counts; groupby drops the rows whose key has a
\* missing value
counts_of(base) ==
    LET keyed == SelectSeq(base, LAMBDA r : r.chembl_id # NA /\ r.gene_name # NA)
        keys == sorted_count_keys({count_key(keyed[i]) : i \in 1..Len(keyed)})
    IN  [g \in 1..Len(keys) |->
            [key |-> keys[g],
             Count |-> Len(SelectSeq(keyed, LAMBDA r : count_key(r) = keys[g]))]]

\* counts[...].merge(base, on=group_cols, how="left") for the selected
\* rows of counts: their base rows, key by key
expanded_of(selected, base) ==
    Flatten([g \in 1..Len(selected) |->
                SelectSeq(base, LAMBDA r : count_key(r) = selected[g].key)])

\* the whitelist filter without effect
MultiplesUnfiltered(base) ==
    expanded_of(SelectSeq(counts_of(base), LAMBDA c : c.Count # 1), base)

\* get_multyply after its call of build_base
multiples_of(base) ==
    SelectSeq(expanded_of(SelectSeq(counts_of(base), LAMBDA c : c.Count # 1), base),
              LAMBDA r : r.Merged \in keep)

get_multyply(source) == multiples_of(build_base(source))

\* `expanded` of main_process
singles_of(base) ==
    expanded_of(SelectSeq(counts_of(base), LAMBDA c : c.Count = 1), base)

\* main_process: ValueError from get_table, or the rows of `combined`
main_process(df) ==
    LET table1 == get_table(df)
    IN  IF table1.kind # "return" THEN table1
        ELSE Ret(singles_of(build_base(table1.val)) \o get_multyply(table1.val))

---------------------------------------------------------------------------
(* Specification SpecDedup: get_table, build_base and main_process over    *)
(* input tables of at most MaxSourceRows rows, with every required column  *)
(* or with some missing.  The rows: targets without a type and targets     *)
(* with one that share alternative names, family ids and row positions     *)
(* that make curated keys, missing cells.                                  *)

\* most rows in a generated input table
MaxSourceRows == 3

C0 == <<"C","0">>
C1 == <<"C","1">>
C2 == <<"C","2">>
sPipe == <<"|">>
sSpace == <<" ">>
sA == <<"a">>
sAUpper == <<"A"," ">>
sAB == <<"a","|","b">>
sABCDE == <<"a","|","b","|","c","|","d","|","e">>

\* a row of the input: the classification columns follow the type, the
\* description and the ChEMBL alternative name repeat names_x
SourceRow(chembl_id, target_id, family_id, type_val, gene, names_x) ==
    [chembl_id |-> chembl_id, target_id |-> target_id,
     IUPHAR_family_id |-> family_id, IUPHAR_type |-> type_val,
     IUPHAR_class |-> IF type_val = NA THEN NA ELSE cls_part(type_val),
     IUPHAR_subclass |-> IF type_val = NA THEN NA ELSE sub_part(type_val),
     IUPHAR_chain |-> IF family_id = NaInt THEN NA ELSE IntToStr(family_id),
     full_id_path |-> IF target_id = NaInt THEN NA ELSE IntToStr(target_id),
     full_name_path |-> NA,
     gene |-> gene, component_description |-> names_x, names_x |-> names_x,
     chembl_alternative_name |-> names_x]

DedupSourceRows ==
    { SourceRow(C1, NaInt, NaInt, NA, sAB, sA),
      SourceRow(NA, NaInt, NaInt, NA, sA, NA),
      SourceRow(C2, 1, 840188, EnzymeTransferase, sA, sAUpper),
      SourceRow(C2, 2, 7, EnzymeTransferase, sAB, sA),
      SourceRow(C0, 3, 52182, IonChannelNA, sABCDE, sA),
      SourceRow(C2, 4, NaInt, sOtherOther, NA, NA),
      SourceRow(C2, 5, NaInt, sOtherOther, sPipe, sSpace) }

RequiredColumns == {required[i] : i \in 1..Len(required)}

DedupColumnSets ==
    { RequiredColumns,
      RequiredColumns \ {"gene"},
      RequiredColumns \ {"names_x", "chembl_id", "IUPHAR_type"} }

\* a table with the given columns: the cells of the other columns dropped
SourceTable(columns, rows) ==
    [columns |-> columns,
     rows |-> IF RequiredColumns \subseteq columns THEN rows
              ELSE [i \in 1..Len(rows) |->
                       [c \in columns |-> rows[i][c]]]]

DedupInputs ==
    {SourceTable(columns, rows) :
        columns \in DedupColumnSets,
        rows \in SeqsUpTo(DedupSourceRows, MaxSourceRows)}

InitDedup ==
    /\ target_df = <<>>
    /\ family_df = <<>>
    /\ pc = "idle"
    /\ chain = <<>>
    /\ current = Empty
    /\ op = ""
    /\ args = <<>>
    /\ result = NoCall

get_table_call ==
    \E source \in DedupInputs :
        /\ op = ""
        /\ op' = "get_table"
        /\ args' = <<source>>
        /\ result' = get_table(source)
        /\ UNCHANGED <<target_df, family_df, pc, chain, current>>

\* build_base on a table get_table has returned
build_base_call ==
    \E source \in DedupInputs :
        /\ op = ""
        /\ get_table(source).kind = "return"
        /\ op' = "build_base"
        /\ args' = <<get_table(source).val>>
        /\ result' = Ret(build_base(args'[1]))
        /\ UNCHANGED <<target_df, family_df, pc, chain, current>>

main_process_call ==
    \E df \in DedupInputs :
        /\ op = ""
        /\ op' = "main_process"
        /\ args' = <<df>>
        /\ result' = main_process(df)
        /\ UNCHANGED <<target_df, family_df, pc, chain, current>>

NextDedup ==
    \/ get_table_call
    \/ build_base_call
    \/ main_process_call

SpecDedup == InitDedup /\ [][NextDedup]_vars

\* C17: get_table, and so main_process, given a table that lacks any of
\* the 13 required columns raises one ValueError that names every missing
\* column, each once, and returns no table.
C17_MissingColumns ==
    (op \in {"get_table", "main_process"}
     /\ ~ (RequiredColumns \subseteq args[1].columns)) =>
        /\ result.kind = "raise"
        /\ DOMAIN result = {"kind", "missing"}
        /\ Elems(result.missing) = RequiredColumns \ args[1].columns
        /\ Len(result.missing) = Cardinality(RequiredColumns \ args[1].columns)

\* C17 witness: main_process on a table with rows but without chembl_id,
\* IUPHAR_type and names_x has raised the error naming those three
C17_Witness ==
    /\ op = "main_process"
    /\ Len(args[1].rows) > 0
    /\ result.kind = "raise"
    /\ result.missing = <<"chembl_id", "IUPHAR_type", "names_x">>

\* str(IUPHAR_family_id) + str(Index) of a row, missing when the family is
CompositeKey(r) ==
    IF r.IUPHAR_family_id = NaInt THEN NA
    ELSE IntToStr(r.IUPHAR_family_id) \o IntToStr(r.Index)

\* the rows of a table in the (chembl_id, gene_name, Index) group of r
GroupOf(table, r) ==
    {j \in 1..Len(table) :
        /\ table[j].chembl_id = r.chembl_id
        /\ table[j].gene_name = r.gene_name
        /\ table[j].Index = r.Index}

\* C18: every row main_process returns is a row of the build_base result
\* that is the only row of its (chembl_id, gene_name, Index) group there, or
\* whose family_id + Index key is in the whitelist.
C18_SinglesOrWhitelisted ==
    (op = "main_process" /\ result.kind = "return") =>
        LET base == build_base(get_table(args[1]).val)
        IN  \A i \in 1..Len(result.val) :
                /\ \E j \in 1..Len(base) : base[j] = result.val[i]
                /\ \/ Cardinality(GroupOf(base, result.val[i])) = 1
                   \/ CompositeKey(result.val[i]) \in keep

\* C18 witness: of a group of two rows main_process has returned the
\* whitelisted one (key 8401880) and not the other, after the one row of
\* a singleton group
C18_Witness ==
    /\ op = "main_process"
    /\ result.kind = "return"
    /\ Len(result.val) = 2
    /\ Len(build_base(get_table(args[1]).val)) = 3
    /\ Cardinality(GroupOf(build_base(get_table(args[1]).val), result.val[1])) = 1
    /\ Cardinality(GroupOf(build_base(get_table(args[1]).val), result.val[2])) = 2
    /\ CompositeKey(result.val[2]) = sKey8401880

\* Stage D on a table with the columns of the build_base result
StageD(base) == singles_of(base) \o multiples_of(base)

\* C19: Stage D applied to the table main_process returns gives that table
\* again, the same rows in the same order.
C19_StageDIdempotent ==
    (op = "main_process" /\ result.kind = "return") =>
        StageD(result.val) = result.val

\* C20: every row build_base returns joins a Stage B row without an
\* IUPHAR_type to a Stage B row with one that has the same alternative
\* name: it has the identity columns of the first, the type and the other
\* classification columns of the second, and its family_id + Index key is
\* not an exclusion key (so a row without a type that no row with a type
\* shares a name with gives no row).
C20_BuildBaseRows ==
    op = "build_base" =>
        /\ result.kind = "return"
        /\ \A i \in 1..Len(result.val) :
               LET r == result.val[i]
               IN  /\ r.IUPHAR_type # NA
                   /\ CompositeKey(r) \notin exclusion_keys
                   /\ \E l \in 1..Len(args[1]), d \in 1..Len(args[1]) :
                          /\ args[1][l].IUPHAR_type = NA
                          /\ args[1][d].IUPHAR_type # NA
                          /\ args[1][l]._alternative_names = r._alternative_names
                          /\ args[1][d]._alternative_names = r._alternative_names
                          /\ r.chembl_id = args[1][l].chembl_id
                          /\ r.gene_name = args[1][l].gene_name
                          /\ r.Index = args[1][l].Index
                          /\ r.target_id = args[1][d].target_id
                          /\ r.IUPHAR_family_id = args[1][d].IUPHAR_family_id
                          /\ r.IUPHAR_type = args[1][d].IUPHAR_type
                          /\ r.IUPHAR_class = args[1][d].IUPHAR_class
                          /\ r.IUPHAR_subclass = args[1][d].IUPHAR_subclass
                          /\ r.IUPHAR_chain = args[1][d].IUPHAR_chain
                          /\ r.full_id_path = args[1][d].full_id_path
                          /\ r.full_name_path = args[1][d].full_name_path

\* C20 witness: build_base has returned rows from a table in which a row
\* without a type shares its name with a row whose family makes the
\* excluded key 521825 with its Index, and in which another row without a
\* type shares its name with no row that has one
C20_Witness ==
    /\ op = "build_base"
    /\ result.kind = "return"
    /\ result.val # <<>>
    /\ \E l \in 1..Len(args[1]), d \in 1..Len(args[1]) :
           /\ args[1][l].IUPHAR_type = NA
           /\ args[1][d].IUPHAR_type # NA
           /\ args[1][l]._alternative_names = args[1][d]._alternative_names
           /\ args[1][d].IUPHAR_family_id = 52182
           /\ args[1][l].Index = 5
    /\ \E l \in 1..Len(args[1]) :
           /\ args[1][l].IUPHAR_type = NA
           /\ \A d \in 1..Len(args[1]) :
                  args[1][d].IUPHAR_type # NA =>
                      args[1][d]._alternative_names # args[1][l]._alternative_names

\* the names split_and_clean finds in a source row
NamesOfSourceRow(r) ==
    split_and_clean(<<to_lower_if_text(r.gene),
                      to_lower_if_text(r.component_description),
                      to_lower_if_text(r.names_x),
                      to_lower_if_text(r.chembl_alternative_name)>>)

\* C21: in the table get_table returns no row has an empty or a missing
\* alternative name, and the Index of the row at position i (from zero) is
\* i, so the Index values of n rows are 0..n-1, each once.
C21_NamesAndIndex ==
    (op = "get_table" /\ result.kind = "return") =>
        /\ \A i \in 1..Len(result.val) :
               /\ result.val[i]._alternative_names # NA
               /\ result.val[i]._alternative_names # Empty
               /\ result.val[i].Index = i - 1
        /\ {result.val[i].Index : i \in 1..Len(result.val)}
               = 0..(Len(result.val) - 1)

\* C21 witness: get_table has returned several rows from a table one of
\* whose rows has no name at all
C21_Witness ==
    /\ op = "get_table"
    /\ result.kind = "return"
    /\ Len(result.val) >= 2
    /\ \E i \in 1..Len(args[1].rows) : NamesOfSourceRow(args[1].rows[i]) = <<>>

---------------------------------------------------------------------------
(* split_and_clean on lists of pipe-delimited fields.                      *)

MaxPieces == 3
MaxTexts == 2

\* the pieces the fields are made of
SplitPieces == {sA, sSpace, sPipe, sSynonymsTag}

SplitTexts == {Concat(ps) : ps \in SeqsUpTo(SplitPieces, MaxPieces)}

SplitInputs == SeqsUpTo(SplitTexts, MaxTexts)

InitSplit ==
    /\ target_df = <<>>
    /\ family_df = <<>>
    /\ pc = "idle"
    /\ chain = <<>>
    /\ current = Empty
    /\ op = ""
    /\ args = <<>>
    /\ result = NoCall

split_and_clean_call ==
    \E texts \in SplitInputs :
        /\ op = ""
        /\ op' = "split_and_clean"
        /\ args' = <<texts>>
        /\ result' = Ret(split_and_clean(texts))
        /\ UNCHANGED <<target_df, family_df, pc, chain, current>>

NextSplit ==
    \/ split_and_clean_call

SpecSplit == InitSplit /\ [][NextSplit]_vars

\* a piece of a field as the tokens are to be: the tag removed, trimmed
CleanedPiece(p) == Strip(Remove(p, sSynonymsTag))

\* the position of the first piece of the fields that gives a token
FirstSeen(texts, token) ==
    LET pieces == Flatten([i \in 1..Len(texts) |-> Split(texts[i], "|")])
        at == {k \in 1..Len(pieces) : CleanedPiece(pieces[k]) = token}
    IN  IF at = {} THEN 0 ELSE CHOOSE k \in at : \A other \in at : k <= other

\* C22: the tokens split_and_clean returns are the pieces of the fields
\* in first-seen order, no token twice, none empty, none with the
\* "synonyms=" tag in it, none with whitespace at its start or end.
C22_SplitAndClean ==
    op = "split_and_clean" =>
        /\ \A i, j \in 1..Len(result.val) :
               i < j => /\ result.val[i] # result.val[j]
                        /\ FirstSeen(args[1], result.val[i])
                               < FirstSeen(args[1], result.val[j])
        /\ \A i \in 1..Len(result.val) :
               /\ result.val[i] # Empty
               /\ FirstSeen(args[1], result.val[i]) > 0
               /\ ~ StrContains(result.val[i], sSynonymsTag)
               /\ Strip(result.val[i]) = result.val[i]

---------------------------------------------------------------------------
(* The family of the record get gives in its target_id branch.             *)

\* the family the target_id branch is to use: the one supplied, else the
\* target's own
SuppliedOrOwnFamily(tdf, t, f) ==
    IF ValidId(f) THEN f
    ELSE IF from_target_family_id(tdf, t) # Empty
        THEN from_target_family_id(tdf, t)
    ELSE sNA

\* C23: a record get returns from its target_id branch has the supplied
\* family_id when a valid one was supplied and the target's own family
\* otherwise, and its tree is the family chain of that family_id.
C23_SuppliedFamilyFirst ==
    (op = "get" /\ result.kind = "return" /\ result.val.STATUS = "target_id") =>
        LET family_id == SuppliedOrOwnFamily(target_df, args[1], args[2])
        IN  /\ result.val.IUPHAR_family_id = family_id
            /\ _is_valid_parameter(family_id) =>
                   Ret(result.val.IUPHAR_tree) = family_chain(family_df, family_id)

---------------------------------------------------------------------------
(* The ids of a chain and the records of the family table.                 *)

\* C24: every id of the chain family_chain returns has a record in the
\* family table (a start id or a parent id without a record is not in the
\* chain, and the chain of an id without a record is empty).
C24_ChainIdsHaveRecords ==
    (op = "family_chain" /\ result.kind = "return") =>
        \A i \in 1..Len(result.val) :
            FamilyRowsOf(family_df, result.val[i]) # <<>>

---------------------------------------------------------------------------
(* The tree of a record without a family.                                  *)

\* C25: a record by_target_id, by_family_id, by_name or get returns whose
\* family_id is "N/A" and whose status is not "ec_number" has the tree
\* ["0864-1", "0864"] of the default record.
C25_SentinelTree ==
    (/\ op \in {"by_target_id", "by_family_id", "by_name", "get"}
     /\ result.kind = "return"
     /\ result.val.IUPHAR_family_id = sNA
     /\ result.val.STATUS # "ec_number") =>
        result.val.IUPHAR_tree = <<s0864_1, s0864>>

---------------------------------------------------------------------------
(* by_name on a name that several targets match.                           *)

\* C26: the record by_name returns has no "|" in its target_id or its
\* family_id, and when the name gives neither a valid unambiguous target id
\* nor such a family id its type is the keyword type of the name.
C26_AmbiguousIdsInvalid ==
    (op = "by_name" /\ result.kind = "return" /\ result.val.STATUS = "name") =>
        /\ ~ InSeq("|", result.val.IUPHAR_target_id)
        /\ ~ InSeq("|", result.val.IUPHAR_family_id)
        /\ (/\ ~ ValidId(target_id_by_name(target_df, args[1]).val)
            /\ ~ ValidId(family_id_by_name(target_df, args[1]).val)) =>
               result.val.IUPHAR_type = _name_to_type(args[1])

---------------------------------------------------------------------------
(* The rows Stage D drops.                                                 *)

\* the number of times a row occurs in a table
Occurrences(table, r) == Cardinality({j \in 1..Len(table) : table[j] = r})

\* C27: a row of the build_base result that is alone in its (chembl_id,
\* gene_name, Index) group, or whose key is whitelisted, is in the table
\* main_process returns as often as in the build_base result (once), also
\* when its chembl_id or gene_name is missing.
C27_OnlyListedDrops ==
    (op = "main_process" /\ result.kind = "return") =>
        LET base == build_base(get_table(args[1]).val)
        IN  \A j \in 1..Len(base) :
                (\/ Cardinality(GroupOf(base, base[j])) = 1
                 \/ CompositeKey(base[j]) \in keep) =>
                    Occurrences(result.val, base[j]) = Occurrences(base, base[j])

---------------------------------------------------------------------------
(* "N/A.N/A" as a result of _target_to_type.                               *)

\* C28 as stated: _target_to_type never returns "N/A.N/A".
C28_NeverContradiction ==
    op = "_target_to_type" => result.val # sNANA

\* C28: _target_to_type returns "N/A.N/A" only as the text of the target's
\* own type cell or of its family's type cell, never for two types that
\* contradict each other.
C28_ContradictionOnlyFromData ==
    (op = "_target_to_type" /\ result.val = sNANA) =>
        /\ \E i \in 1..Len(target_df) : target_df[i].target_id = args[1]
        /\ LET row == TargetRowOf(target_df, args[1])
           IN  \/ row.type = sNANA
               \/ FamilyTypeOf(family_df, row.family_id) = sNANA

\* C28 witness: a target whose own type and family type are valid and
\* differ, neither being "N/A.N/A", got a type
C28_Witness ==
    /\ op = "_target_to_type"
    /\ \E i \in 1..Len(target_df) : target_df[i].target_id = args[1]
    /\ LET row == TargetRowOf(target_df, args[1])
       IN  /\ row.type = EnzymeTransferase
           /\ FamilyTypeOf(family_df, row.family_id) = IonChannelNA
    /\ result = Ret(EnzymeTransferase)

---------------------------------------------------------------------------
(* The composite key of two rows.                                          *)

KeyFamilyIds == {1, 11, 5218, 52182}
KeyIndexes == {0, 5, 10, 25}

\* the two columns of a row that Merged is made of
KeyRows ==
    {[IUPHAR_family_id |-> f, Index |-> i] : f \in KeyFamilyIds, i \in KeyIndexes}

InitKey ==
    /\ target_df = <<>>
    /\ family_df = <<>>
    /\ pc = "idle"
    /\ chain = <<>>
    /\ current = Empty
    /\ op = ""
    /\ args = <<>>
    /\ result = NoCall

\* Merged computed for two rows of dup_index
Merged_call ==
    \E r1 \in KeyRows, r2 \in KeyRows :
        /\ op = ""
        /\ op' = "Merged"
        /\ args' = <<r1, r2>>
        /\ result' = Ret(<<CompositeKey(r1), CompositeKey(r2)>>)
        /\ UNCHANGED <<target_df, family_df, pc, chain, current>>

NextKey ==
    \/ Merged_call

SpecKey == InitKey /\ [][NextKey]_vars

\* C29: two rows whose (IUPHAR_family_id, Index) pairs differ have
\* different Merged keys.
C29_KeyIdentifiesPair ==
    (op = "Merged" /\ args[1] # args[2]) => result.val[1] # result.val[2]

---------------------------------------------------------------------------
(* Rows of the batch input with an empty accession.                        *)

\* C30: in the table map_uniprot_file returns, a row whose uniprot_id is
\* "" has target_id "" (the empty accession resolves to no target, also
\* when a target has an empty swissprot field).
C30_EmptyAccessionUnresolved ==
    (op = "map_uniprot_file" /\ result.kind = "return") =>
        \A i \in 1..Len(result.val) :
            result.val[i].uniprot_id = Empty => result.val[i].target_id = Empty

=============================================================================
